---- MODULE Spec2Model ----
(***************************************************************************)
(* A model of the probabilistic core of EdgeFinder (backend/):             *)
(*   models/kelly.py            kelly_fraction                             *)
(*   engine/value_detector.py   detect_value_bets                          *)
(*   models/poisson.py          run_bivariate_poisson and its summary      *)
(*   models/dixon_coles.py      _tau, run_dixon_coles                      *)
(*   engine/confidence.py       compute_confidence                         *)
(*   scheduler.py, main.py      _fallback_model, _model_from_odds          *)
(*   engine/backtest.py         TeamTracker, LeagueTracker, _simulate,      *)
(*                              _equity_curve, run_backtest                *)
(*                                                                         *)
(* Numbers.  Python floats are modelled in fixed point: a real x is the    *)
(* integer x * Unit (Unit = 1000), so a probability of 0.55 is 550, odds   *)
(* of 2.10 are 2100 and an edge of 0.05 is 50.  Products and quotients     *)
(* are rescaled with Mul and Div, which round towards minus infinity.      *)
(* Counters (goals, matches, k) and bet counts are plain integers.         *)
(* Python's None for a missing odds value is the number 0: the code only   *)
(* ever tests such a value for truthiness, and _get_odds never returns     *)
(* 0.0.                                                                    *)
(***************************************************************************)
EXTENDS Integers, Sequences, FiniteSets, TLC

VARIABLES
    k_in,       \* kelly_fraction: the two argument tuples under comparison
    k_out,      \* kelly_fraction: the two results, once returned
    dvb_in,     \* detect_value_bets: model_probs, market_odds, threshold
    dvb_out,    \* detect_value_bets: the list returned
    sim_matches,    \* the match list _simulate is given / load_matches finds
    sim_config,     \* the BacktestConfig _simulate / run_backtest is given
    simulation,     \* _simulate: the state of the call (see NewSimulation)
    backtest,       \* run_backtest: the state of the call (see NewBacktest)
    confidence,     \* compute_confidence: the arguments and the score returned
    poisson,        \* run_bivariate_poisson: the state of the call
    dixon_coles,    \* run_dixon_coles: the state of the call
    market_model,   \* _fallback_model / _model_from_odds: odds in, lambdas out
    equity_curve,   \* _equity_curve: the state of the call (see NewEquityCurve)
    scheduler,      \* generate_signals: the signals table and the running jobs
    team_tracker    \* a TeamTracker and the update calls made and still to make

vars == <<k_in, k_out, dvb_in, dvb_out, sim_matches, sim_config, simulation,
          backtest, confidence, poisson, dixon_coles, market_model,
          equity_curve, scheduler, team_tracker>>

(***************************************************************************)
(* Fixed-point arithmetic                                                  *)
(***************************************************************************)
Unit == 10 * 100

Mul(a, b) == (a * b) \div Unit

Div(a, b) == (a * Unit) \div b

Max(a, b) == IF a >= b THEN a ELSE b

Min(a, b) == IF a <= b THEN a ELSE b

(***************************************************************************)
(* models/kelly.py                                                         *)
(***************************************************************************)
\* kelly_fraction without the max(0.0, ...) of line 13: a negative edge
\* gives a negative stake.
kelly_fraction_no_floor(probability, odds, fraction, cap) ==
    IF odds <= Unit \/ probability <= 0
    THEN 0
    ELSE LET b == odds - Unit
             q == Unit - probability
             full_kelly == Div(Mul(b, probability) - q, b)
             stake == Mul(full_kelly, fraction)
         IN  Min(stake, cap)

\* kelly_fraction with the numerator of line 12 written the wrong way
\* round (q - b*p).
kelly_fraction_swapped(probability, odds, fraction, cap) ==
    IF odds <= Unit \/ probability <= 0
    THEN 0
    ELSE LET b == odds - Unit
             q == Unit - probability
             full_kelly == Div(q - Mul(b, probability), b)
             stake == Max(0, Mul(full_kelly, fraction))
         IN  Min(stake, cap)

kelly_fraction(probability, odds, fraction, cap) ==
    IF odds <= Unit \/ probability <= 0
    THEN 0
    ELSE LET b == odds - Unit
             q == Unit - probability
             full_kelly == Div(Mul(b, probability) - q, b)
             stake == Max(0, Mul(full_kelly, fraction))
         IN  Min(stake, cap)

(***************************************************************************)
(* engine/value_detector.py                                                *)
(* A dict is a function on the set of its keys; a loop over a dict visits  *)
(* the keys in the order the callers insert them (OutcomeOrder).           *)
(***************************************************************************)
BLEND_MODEL == 650

BLEND_MARKET == Unit - BLEND_MODEL

MAX_ODDS == 15 * Unit

EDGE_CAP == 150

DEFAULT_CAP == 100

QUARTER == 250

OutcomeOrder == <<"home", "draw", "away">>

RECURSIVE SumOver(_, _)
SumOver(f, keys) ==
    IF keys = {} THEN 0
    ELSE LET k == CHOOSE x \in keys : TRUE
         IN  f[k] + SumOver(f, keys \ {k})

\* Lines 25-27: market-implied probabilities, margin removed.
ImpliedProbs(market_odds) ==
    LET keys == {k \in DOMAIN market_odds : market_odds[k] > 0}
        implied_raw == [k \in keys |-> Div(Unit, market_odds[k])]
        total == SumOver(implied_raw, keys)
        margin == IF total = 0 THEN Unit ELSE total
    IN  [k \in keys |-> Div(implied_raw[k], margin)]

\* dict.get(key, default)
Get(d, key, default) == IF key \in DOMAIN d THEN d[key] ELSE default

\* The body of the loop of lines 30-47 for one outcome: the list of the
\* value bets it appends (empty or one bet).
\* Mutant: the odds ceiling of line 32 is not applied.
DetectOne_no_ceiling(outcome, model_prob, market_odds, market_probs, threshold) ==
    LET odds == Get(market_odds, outcome, 0)
    IN  IF odds = 0
        THEN <<>>
        ELSE LET market_prob == Get(market_probs, outcome, 0)
                 blended_prob == Mul(BLEND_MODEL, model_prob)
                                   + Mul(BLEND_MARKET, market_prob)
                 edge == Min(Mul(odds, blended_prob) - Unit, EDGE_CAP)
             IN  IF edge > threshold
                 THEN << [outcome |-> outcome, probability |-> blended_prob,
                          odds |-> odds, edge |-> edge,
                          kelly |-> kelly_fraction(blended_prob, odds,
                                                   QUARTER, DEFAULT_CAP)] >>
                 ELSE <<>>

\* Mutant: the threshold test of line 38 is written >= instead of >.
DetectOne_ge(outcome, model_prob, market_odds, market_probs, threshold) ==
    LET odds == Get(market_odds, outcome, 0)
    IN  IF odds = 0 \/ odds > MAX_ODDS
        THEN <<>>
        ELSE LET market_prob == Get(market_probs, outcome, 0)
                 blended_prob == Mul(BLEND_MODEL, model_prob)
                                   + Mul(BLEND_MARKET, market_prob)
                 edge == Min(Mul(odds, blended_prob) - Unit, EDGE_CAP)
             IN  IF edge >= threshold
                 THEN << [outcome |-> outcome, probability |-> blended_prob,
                          odds |-> odds, edge |-> edge,
                          kelly |-> kelly_fraction(blended_prob, odds,
                                                   QUARTER, DEFAULT_CAP)] >>
                 ELSE <<>>

\* Mutant: an outcome the market does not price is given odds of 3.0 (line 31
\* with a default) instead of being skipped.
DetectOne_default_odds(outcome, model_prob, market_odds, market_probs, threshold) ==
    LET odds == Get(market_odds, outcome, 3 * Unit)
    IN  IF odds = 0 \/ odds > MAX_ODDS
        THEN <<>>
        ELSE LET market_prob == Get(market_probs, outcome, 0)
                 blended_prob == Mul(BLEND_MODEL, model_prob)
                                   + Mul(BLEND_MARKET, market_prob)
                 edge == Min(Mul(odds, blended_prob) - Unit, EDGE_CAP)
             IN  IF edge > threshold
                 THEN << [outcome |-> outcome, probability |-> blended_prob,
                          odds |-> odds, edge |-> edge,
                          kelly |-> kelly_fraction(blended_prob, odds,
                                                   QUARTER, DEFAULT_CAP)] >>
                 ELSE <<>>

\* Mutant: the kelly field of line 45 is worked out from the raw model
\* probability instead of the blended one.
DetectOne_raw_kelly(outcome, model_prob, market_odds, market_probs, threshold) ==
    LET odds == Get(market_odds, outcome, 0)
    IN  IF odds = 0 \/ odds > MAX_ODDS
        THEN <<>>
        ELSE LET market_prob == Get(market_probs, outcome, 0)
                 blended_prob == Mul(BLEND_MODEL, model_prob)
                                   + Mul(BLEND_MARKET, market_prob)
                 edge == Min(Mul(odds, blended_prob) - Unit, EDGE_CAP)
             IN  IF edge > threshold
                 THEN << [outcome |-> outcome, probability |-> blended_prob,
                          odds |-> odds, edge |-> edge,
                          kelly |-> kelly_fraction(model_prob, odds,
                                                   QUARTER, DEFAULT_CAP)] >>
                 ELSE <<>>

\* Mutant: line 37 is left out, the edge is not capped.
DetectOne_uncapped(outcome, model_prob, market_odds, market_probs, threshold) ==
    LET odds == Get(market_odds, outcome, 0)
    IN  IF odds = 0 \/ odds > MAX_ODDS
        THEN <<>>
        ELSE LET market_prob == Get(market_probs, outcome, 0)
                 blended_prob == Mul(BLEND_MODEL, model_prob)
                                   + Mul(BLEND_MARKET, market_prob)
                 edge == Mul(odds, blended_prob) - Unit
             IN  IF edge > threshold
                 THEN << [outcome |-> outcome, probability |-> blended_prob,
                          odds |-> odds, edge |-> edge,
                          kelly |-> kelly_fraction(blended_prob, odds,
                                                   QUARTER, DEFAULT_CAP)] >>
                 ELSE <<>>

DetectOne(outcome, model_prob, market_odds, market_probs, threshold) ==
    LET odds == Get(market_odds, outcome, 0)
    IN  IF odds = 0 \/ odds > MAX_ODDS
        THEN <<>>
        ELSE LET market_prob == Get(market_probs, outcome, 0)
                 blended_prob == Mul(BLEND_MODEL, model_prob)
                                   + Mul(BLEND_MARKET, market_prob)
                 edge == Min(Mul(odds, blended_prob) - Unit, EDGE_CAP)
             IN  IF edge > threshold
                 THEN << [outcome |-> outcome, probability |-> blended_prob,
                          odds |-> odds, edge |-> edge,
                          kelly |-> kelly_fraction(blended_prob, odds,
                                                   QUARTER, DEFAULT_CAP)] >>
                 ELSE <<>>

RECURSIVE DetectLoop(_, _, _, _, _)
DetectLoop(i, model_probs, market_odds, market_probs, threshold) ==
    IF i > Len(OutcomeOrder)
    THEN <<>>
    ELSE LET outcome == OutcomeOrder[i]
             rest == DetectLoop(i + 1, model_probs, market_odds,
                                market_probs, threshold)
         IN  IF outcome \in DOMAIN model_probs
             THEN DetectOne(outcome, model_probs[outcome], market_odds,
                            market_probs, threshold) \o rest
             ELSE rest

detect_value_bets(model_probs, market_odds, threshold) ==
    DetectLoop(1, model_probs, market_odds, ImpliedProbs(market_odds), threshold)

(***************************************************************************)
(* models/poisson.py                                                       *)
(* poisson.pmf(n, lam) is exp(-lam) * lam^n / n!.  The factor exp(-lam) is  *)
(* common to all cells of a score matrix and cancels in the normalisation   *)
(* of line 65, so a cell is built from the weights lam^n / n!.              *)
(***************************************************************************)
MAX_GOALS == 7

LAMBDA_SHARED == 100

RECURSIVE PoissonWeight(_, _)
PoissonWeight(n, lam) ==
    IF n = 0 THEN Unit
    ELSE (PoissonWeight(n - 1, lam) * lam) \div (n * Unit)

RECURSIVE BivariateSum(_, _, _, _, _, _)
BivariateSum(k, home_goals, away_goals, lambda_home, lambda_away, lambda_shared) ==
    IF k > Min(home_goals, away_goals)
    THEN 0
    ELSE Mul(Mul(PoissonWeight(home_goals - k, lambda_home),
                 PoissonWeight(away_goals - k, lambda_away)),
             PoissonWeight(k, lambda_shared))
         + BivariateSum(k + 1, home_goals, away_goals,
                        lambda_home, lambda_away, lambda_shared)

_bivariate_poisson_pmf(home_goals, away_goals, lambda_home, lambda_away, lambda_shared) ==
    BivariateSum(0, home_goals, away_goals, lambda_home, lambda_away, lambda_shared)

\* The sum of f over the cells of a (max_goals+1) x (max_goals+1) grid that
\* satisfy keep.
RECURSIVE SumCells(_, _, _, _)
SumCells(f, cells, max_goals, n) ==
    IF n > (max_goals + 1) * (max_goals + 1) - 1
    THEN 0
    ELSE LET i == n \div (max_goals + 1)
             j == n % (max_goals + 1)
         IN  (IF <<i, j>> \in cells THEN f[<<i, j>>] ELSE 0)
             + SumCells(f, cells, max_goals, n + 1)

Grid(max_goals) == (0 .. max_goals) \X (0 .. max_goals)

build_score_matrix(lambda_home, lambda_away, lambda_shared, max_goals) ==
    LET raw == [c \in Grid(max_goals) |->
                   _bivariate_poisson_pmf(c[1], c[2], lambda_home,
                                          lambda_away, lambda_shared)]
        total == SumCells(raw, Grid(max_goals), max_goals, 0)
    IN  [matrix |-> [c \in Grid(max_goals) |-> Div(raw[c], total)],
         max_goals |-> max_goals]

\* Mutant: line 79 reads >= instead of >, a drawn scoreline is counted as a
\* home win and as a draw.
summarize_from_matrix_draws_twice(score_matrix) ==
    LET g == Grid(score_matrix.max_goals)
        sum(cells) == SumCells(score_matrix.matrix, cells,
                               score_matrix.max_goals, 0)
        over_25 == sum({c \in g : c[1] + c[2] > 2})
    IN  [home_win |-> sum({c \in g : c[1] >= c[2]}),
         draw     |-> sum({c \in g : c[1] = c[2]}),
         away_win |-> sum({c \in g : c[1] < c[2]}),
         over_25  |-> over_25,
         under_25 |-> Unit - over_25]

summarize_from_matrix(score_matrix) ==
    LET g == Grid(score_matrix.max_goals)
        sum(cells) == SumCells(score_matrix.matrix, cells,
                               score_matrix.max_goals, 0)
        over_25 == sum({c \in g : c[1] + c[2] > 2})
    IN  [home_win |-> sum({c \in g : c[1] > c[2]}),
         draw     |-> sum({c \in g : c[1] = c[2]}),
         away_win |-> sum({c \in g : c[1] < c[2]}),
         over_25  |-> over_25,
         under_25 |-> Unit - over_25]

\* The fields of the frozen dataclass PoissonOutput (lines 25-36).
PoissonOutput ==
    {"score_matrix", "expected_home_goals", "expected_away_goals",
     "home_win", "draw", "away_win", "over_25", "under_25"}

\* Lines 106-115: the PoissonOutput built from the matrix and its summary.
NewPoissonOutput(lambda_home, lambda_away, lambda_shared, matrix, summary) ==
    [score_matrix        |-> matrix,
     expected_home_goals |-> lambda_home + lambda_shared,
     expected_away_goals |-> lambda_away + lambda_shared,
     home_win            |-> summary.home_win,
     draw                |-> summary.draw,
     away_win            |-> summary.away_win,
     over_25             |-> summary.over_25,
     under_25            |-> summary.under_25]

run_bivariate_poisson(lambda_home, lambda_away) ==
    LET matrix == build_score_matrix(lambda_home, lambda_away,
                                     LAMBDA_SHARED, MAX_GOALS)
        summary == summarize_from_matrix(matrix)
    IN  NewPoissonOutput(lambda_home, lambda_away, LAMBDA_SHARED, matrix, summary)

\* Reading the attribute name of an instance of a dataclass raises
\* AttributeError unless the class declares the field.
HasAttr(class, name) == name \in class

(***************************************************************************)
(* engine/backtest.py: trackers                                            *)
(***************************************************************************)
FORM_WINDOW == 5

NewTeamTracker ==
    [home_for |-> 0, home_against |-> 0, away_for |-> 0, away_against |-> 0,
     home_matches |-> 0, away_matches |-> 0, recent_points |-> <<>>]

Points(own_goals, other_goals) ==
    IF own_goals > other_goals THEN 3
    ELSE IF own_goals = other_goals THEN 1 ELSE 0

\* PushPoints with the newest result at the end of the list.
PushPoints_newest_last(recent_points, points) ==
    LET pushed == Append(recent_points, points)
    IN  IF Len(pushed) > FORM_WINDOW
        THEN Tail(pushed)
        ELSE pushed

\* recent_points.insert(0, points), then pop() beyond five entries.
PushPoints(recent_points, points) ==
    LET pushed == <<points>> \o recent_points
    IN  IF Len(pushed) > FORM_WINDOW
        THEN SubSeq(pushed, 1, Len(pushed) - 1)
        ELSE pushed

TeamTrackerUpdate(t, home_goals, away_goals, is_home) ==
    IF is_home
    THEN [t EXCEPT !.home_for = @ + home_goals,
                   !.home_against = @ + away_goals,
                   !.home_matches = @ + 1,
                   !.recent_points = PushPoints(@, Points(home_goals, away_goals))]
    ELSE [t EXCEPT !.away_for = @ + away_goals,
                   !.away_against = @ + home_goals,
                   !.away_matches = @ + 1,
                   !.recent_points = PushPoints(@, Points(away_goals, home_goals))]

RECURSIVE SumSeq(_)
SumSeq(q) == IF q = <<>> THEN 0 ELSE Head(q) + SumSeq(Tail(q))

TeamTrackerForm(t) ==
    IF t.recent_points = <<>>
    THEN Unit \div 2
    ELSE (SumSeq(t.recent_points) * Unit) \div (3 * Len(t.recent_points))

NewLeagueTracker == [home_goals |-> 0, away_goals |-> 0, matches |-> 0]

DEFAULT_AVG_HOME == 1400

DEFAULT_AVG_AWAY == 1100

LeagueAvgHome(l) ==
    IF l.matches # 0 THEN (l.home_goals * Unit) \div l.matches
    ELSE DEFAULT_AVG_HOME

LeagueAvgAway(l) ==
    IF l.matches # 0 THEN (l.away_goals * Unit) \div l.matches
    ELSE DEFAULT_AVG_AWAY

LeagueAvgTotal(l) == (LeagueAvgHome(l) + LeagueAvgAway(l)) \div 2

LeagueTrackerUpdate(l, home_goals, away_goals) ==
    [l EXCEPT !.home_goals = @ + home_goals,
              !.away_goals = @ + away_goals,
              !.matches = @ + 1]

(***************************************************************************)
(* engine/backtest.py: the rating-based expected goals                     *)
(***************************************************************************)
LAMBDA_MIN == 200

LAMBDA_MAX == 5000

FORM_SWING == 100

\* n and k are counts; the averages are fixed point.
_shrink(team_avg, league_avg, n, k) ==
    (n * team_avg + k * league_avg) \div (n + k)

\* team goals / team matches if the team has matches, else the league average
TeamAvg(goals, n, fallback) ==
    IF n # 0 THEN (goals * Unit) \div n ELSE fallback

FormFactor(form) == Unit + Div(Mul(FORM_SWING, form - Unit \div 2), Unit \div 2)

Clamp(x) == Max(LAMBDA_MIN, Min(x, LAMBDA_MAX))

\* The result is a record: raised names the exception of a division by a
\* league average of 0.0 (lines 305 and 306), or is "" and the lambdas are
\* those of line 316.
_expected_goals(home, away, league, k, hfa) ==
    LET avg_home == LeagueAvgHome(league)
        avg_away == LeagueAvgAway(league)
        avg_total == LeagueAvgTotal(league)
        home_att == _shrink(TeamAvg(home.home_for, home.home_matches, avg_home),
                            avg_home, home.home_matches, k)
        home_def == _shrink(TeamAvg(home.home_against, home.home_matches, avg_away),
                            avg_away, home.home_matches, k)
        away_att == _shrink(TeamAvg(away.away_for, away.away_matches, avg_away),
                            avg_away, away.away_matches, k)
        away_def == _shrink(TeamAvg(away.away_against, away.away_matches, avg_home),
                            avg_home, away.away_matches, k)
    IN  IF avg_home = 0 \/ avg_away = 0
        THEN [raised |-> "ZeroDivisionError", lambda_home |-> 0, lambda_away |-> 0]
        ELSE LET lambda_home ==
                     Mul(Mul(Mul(Mul(Div(home_att, avg_home),
                                     Div(away_def, avg_home)),
                                 avg_total), hfa),
                         FormFactor(TeamTrackerForm(home)))
                 lambda_away ==
                     Mul(Mul(Mul(Div(away_att, avg_away),
                                 Div(home_def, avg_away)),
                             avg_total),
                         FormFactor(TeamTrackerForm(away)))
             IN  [raised |-> "",
                  lambda_home |-> Clamp(lambda_home),
                  lambda_away |-> Clamp(lambda_away)]

_match_outcomes(match) ==
    [home     |-> match.home_goals > match.away_goals,
     draw     |-> match.home_goals = match.away_goals,
     away     |-> match.away_goals > match.home_goals,
     over_25  |-> match.home_goals + match.away_goals > 2,
     under_25 |-> match.home_goals + match.away_goals <= 2,
     btts_yes |-> match.home_goals > 0 /\ match.away_goals > 0,
     btts_no  |-> match.home_goals = 0 \/ match.away_goals = 0]

(***************************************************************************)
(* models/dixon_coles.py                                                   *)
(***************************************************************************)
DEFAULT_RHO == 0 - 50

DEFAULT_HFA == 1070

\* Mutant: the correction of the 0-0 cell (line 23) with the sign of the
\* product turned.
_tau_plus(home_goals, away_goals, lambda_home, lambda_away, rho) ==
    IF home_goals = 0 /\ away_goals = 0
    THEN Unit + Mul(Mul(lambda_home, lambda_away), rho)
    ELSE IF home_goals = 1 /\ away_goals = 0
    THEN Unit + Mul(lambda_away, rho)
    ELSE IF home_goals = 0 /\ away_goals = 1
    THEN Unit + Mul(lambda_home, rho)
    ELSE IF home_goals = 1 /\ away_goals = 1
    THEN Unit - rho
    ELSE Unit

\* Lines 15-31.
_tau(home_goals, away_goals, lambda_home, lambda_away, rho) ==
    IF home_goals = 0 /\ away_goals = 0
    THEN Unit - Mul(Mul(lambda_home, lambda_away), rho)
    ELSE IF home_goals = 1 /\ away_goals = 0
    THEN Unit + Mul(lambda_away, rho)
    ELSE IF home_goals = 0 /\ away_goals = 1
    THEN Unit + Mul(lambda_home, rho)
    ELSE IF home_goals = 1 /\ away_goals = 1
    THEN Unit - rho
    ELSE Unit

\* x or default, for a float x.
Or(x, default) == IF x # 0 THEN x ELSE default

\* Lines 55-75: the expected goals of run_dixon_coles, clamped.  The form
\* factor and the clamp are those of _expected_goals, written the same way.
DixonColesLambdas(xg_att_home, xga_def_away, xg_att_away, xga_def_home, league_avg, hfa, form_home, form_away) ==
    LET avg_h == Or(league_avg.avg_xg_home, 1400)
        avg_a == Or(league_avg.avg_xg_away, 1100)
        league_avg_goals == (avg_h + avg_a) \div 2
        att_home_ratio == Div(xg_att_home, avg_h)
        def_away_ratio == Div(xga_def_away, avg_h)
        att_away_ratio == Div(xg_att_away, avg_a)
        def_home_ratio == Div(xga_def_home, avg_a)
        lambda_home == Mul(Mul(Mul(Mul(att_home_ratio, def_away_ratio),
                                   league_avg_goals), hfa),
                           FormFactor(form_home))
        lambda_away == Mul(Mul(Mul(att_away_ratio, def_home_ratio),
                               league_avg_goals),
                           FormFactor(form_away))
    IN  [lambda_home |-> Clamp(lambda_home), lambda_away |-> Clamp(lambda_away)]

\* Lines 77-84: the corrected cells, before normalization.
DixonColesCells(lambda_home, lambda_away, rho, max_goals) ==
    [c \in Grid(max_goals) |->
        Mul(Mul(PoissonWeight(c[1], lambda_home), PoissonWeight(c[2], lambda_away)),
            _tau(c[1], c[2], lambda_home, lambda_away, rho))]

\* Lines 85-87: the cells divided by their sum, as a ScoreMatrix.
Normalized(cells, max_goals) ==
    LET total == SumCells(cells, Grid(max_goals), max_goals, 0)
    IN  [matrix |-> [c \in Grid(max_goals) |-> Div(cells[c], total)],
         max_goals |-> max_goals]

\* Lines 90-101: PoissonOutput(...) reads summary["btts_yes"] and
\* summary["btts_no"]; a key the summary lacks raises KeyError.
DixonColesOutput(lambda_home, lambda_away, score_matrix, summary) ==
    IF {"btts_yes", "btts_no"} \subseteq DOMAIN summary
    THEN [raised |-> "",
          output |-> [score_matrix        |-> score_matrix,
                      expected_home_goals |-> lambda_home,
                      expected_away_goals |-> lambda_away,
                      home_win            |-> summary.home_win,
                      draw                |-> summary.draw,
                      away_win            |-> summary.away_win,
                      over_25             |-> summary.over_25,
                      under_25            |-> summary.under_25,
                      btts_yes            |-> summary.btts_yes,
                      btts_no             |-> summary.btts_no]]
    ELSE [raised |-> "KeyError", output |-> <<>>]

\* run_dixon_coles with hfa, rho, max_goals and both forms at their
\* defaults, as scheduler.generate_signals calls it.
run_dixon_coles(xg_att_home, xga_def_away, xg_att_away, xga_def_home, league_avg) ==
    LET lambdas == DixonColesLambdas(xg_att_home, xga_def_away, xg_att_away,
                                     xga_def_home, league_avg, DEFAULT_HFA,
                                     Unit \div 2, Unit \div 2)
    IN  CHOOSE result \in
            {DixonColesOutput(lambdas.lambda_home, lambdas.lambda_away,
                              score_matrix, summarize_from_matrix(score_matrix)) :
                score_matrix \in
                    {Normalized(DixonColesCells(lambdas.lambda_home,
                                                lambdas.lambda_away,
                                                DEFAULT_RHO, MAX_GOALS),
                                MAX_GOALS)}} : TRUE

(***************************************************************************)
(* scheduler.py and main.py: the market-implied fallback.  The result is   *)
(* the pair of expected goals handed to run_bivariate_poisson.             *)
(***************************************************************************)
TOTAL_GOALS == 2600

DEFAULT_SHARES == [home |-> 450, draw |-> 250, away |-> 300]

\* The implied probabilities of the outcomes priced above floor, divided by
\* their sum (scheduler.py lines 134-136, main.py lines 78-80).
NormalizedOdds(odds, floor) ==
    LET keys == {k \in DOMAIN odds : odds[k] > floor}
        implied == [k \in keys |-> Div(Unit, odds[k])]
        total_implied == Or(SumOver(implied, keys), Unit)
    IN  [k \in keys |-> Div(implied[k], total_implied)]

\* scheduler.py line 138 and main.py lines 83-85.
ShareLambdas(normalized) ==
    LET home_share == Get(normalized, "home", DEFAULT_SHARES.home)
                        + Mul(Unit \div 2, Get(normalized, "draw", DEFAULT_SHARES.draw))
    IN  [lambda_home |-> Mul(TOTAL_GOALS, home_share),
         lambda_away |-> Mul(TOTAL_GOALS, Unit - home_share)]

\* scheduler.py lines 132-139, up to the call of run_bivariate_poisson.
_fallback_model(odds) == ShareLambdas(NormalizedOdds(odds, 0))

\* main.py lines 76-85, up to the call of run_bivariate_poisson.
_model_from_odds(odds) ==
    LET implied == NormalizedOdds(odds, Unit)
    IN  IF DOMAIN implied # {}
        THEN ShareLambdas(implied)
        ELSE ShareLambdas(DEFAULT_SHARES)

(***************************************************************************)
(* engine/backtest.py: _simulate                                           *)
(***************************************************************************)
_market_probs(odds) ==
    LET keys == {k \in DOMAIN odds : odds[k] # 0 /\ odds[k] > Unit}
        implied == [k \in keys |-> Div(Unit, odds[k])]
        sum == SumOver(implied, keys)
        total == IF sum = 0 THEN Unit ELSE sum
    IN  [k \in keys |-> Div(implied[k], total)]

_blend_prob(model_prob, market_prob, weight) ==
    Mul(weight, model_prob) + Mul(Unit - weight, market_prob)

\* The three market blocks of lines 366-444 have one shape.  MarketSpec
\* gives, per market, its outcome keys in loop order, the odds of the match
\* for each key and the closing-line reference (h2h only; 0 elsewhere).
MarketOrder == <<"h2h", "totals", "btts">>

MarketKeys(market) ==
    IF market = "h2h" THEN <<"home", "draw", "away">>
    ELSE IF market = "totals" THEN <<"over_25", "under_25">>
    ELSE <<"btts_yes", "btts_no">>

MatchOdds(match, market) ==
    IF market = "h2h"
    THEN [home |-> match.odds_h, draw |-> match.odds_d, away |-> match.odds_a]
    ELSE IF market = "totals"
    THEN [over_25 |-> match.odds_over25, under_25 |-> match.odds_under25]
    ELSE [btts_yes |-> match.odds_btts_yes, btts_no |-> match.odds_btts_no]

ClvRef(match, market) ==
    IF market = "h2h"
    THEN [home |-> match.avg_h, draw |-> match.avg_d, away |-> match.avg_a]
    ELSE [k \in DOMAIN MatchOdds(match, market) |-> 0]

\* MarketActive asking for the odds of every market of the match.
MarketActive_every_market(match, config, market) ==
    /\ \E i \in 1 .. Len(config.markets) : config.markets[i] = market
    /\ \A m \in {"h2h", "totals", "btts"} :
           \A k \in DOMAIN MatchOdds(match, m) : MatchOdds(match, m)[k] # 0

\* "market in config.markets and <every odds value of the market is truthy>"
MarketActive(match, config, market) ==
    /\ \E i \in 1 .. Len(config.markets) : config.markets[i] = market
    /\ \A k \in DOMAIN MatchOdds(match, market) : MatchOdds(match, market)[k] # 0

\* One pass of a "for key in (...)" loop: the prediction it appends and the
\* bet it appends, if any.
KeyBets(match, config, market, key, model_probs, outcomes) ==
    LET odds == MatchOdds(match, market)
        market_probs == _market_probs(odds)
        blended == _blend_prob(model_probs[key], Get(market_probs, key, 0),
                               config.blend_model_weight)
        odds_value == odds[key]
        edge_value == Mul(odds_value, blended) - Unit
        clv_ref == ClvRef(match, market)[key]
        clv == IF clv_ref # 0 THEN Div(clv_ref - odds_value, odds_value) ELSE 0
    IN  IF odds_value > MAX_ODDS
        THEN <<>>
        ELSE IF edge_value > config.edge_threshold
        THEN << [date |-> match.date, league |-> match.league,
                 market |-> market, outcome |-> key,
                 probability |-> blended, odds |-> odds_value,
                 edge |-> edge_value, won |-> outcomes[key], clv |-> clv] >>
        ELSE <<>>

KeyPrediction(match, config, market, key, model_probs, outcomes) ==
    LET market_probs == _market_probs(MatchOdds(match, market))
        blended == _blend_prob(model_probs[key], Get(market_probs, key, 0),
                               config.blend_model_weight)
    IN  <<blended, IF outcomes[key] THEN 1 ELSE 0>>

RECURSIVE MarketBets(_, _, _, _, _, _)
MarketBets(match, config, market, i, model_probs, outcomes) ==
    IF i > Len(MarketKeys(market)) \/ ~MarketActive(match, config, market)
    THEN <<>>
    ELSE KeyBets(match, config, market, MarketKeys(market)[i],
                 model_probs, outcomes)
         \o MarketBets(match, config, market, i + 1, model_probs, outcomes)

RECURSIVE MarketPredictions(_, _, _, _, _, _)
MarketPredictions(match, config, market, i, model_probs, outcomes) ==
    IF i > Len(MarketKeys(market)) \/ ~MarketActive(match, config, market)
    THEN <<>>
    ELSE << KeyPrediction(match, config, market, MarketKeys(market)[i],
                          model_probs, outcomes) >>
         \o MarketPredictions(match, config, market, i + 1, model_probs, outcomes)

\* dict.setdefault(key, default)
SetDefault(d, key, default) ==
    IF key \in DOMAIN d THEN d
    ELSE [x \in DOMAIN d \cup {key} |-> IF x = key THEN default ELSE d[x]]

\* The state of one _simulate call: its locals, the index of the next match
\* of the loop, how the call stands ("running", "returned", or the exception
\* that ended it) and, as history, what was read for each match replayed:
\* the trackers as the gate of lines 348-351 saw them and the expected goals
\* of line 352 (0 when not computed).
NewSimulation ==
    [teams |-> <<>>, league_tracker |-> <<>>, bets |-> <<>>,
     predictions |-> [h2h |-> <<>>, totals |-> <<>>, btts |-> <<>>],
     next |-> 1, status |-> "running", signals |-> <<>>]

Gate(home_tracker, away_tracker, config) ==
    /\ home_tracker.home_matches >= config.min_matches
    /\ away_tracker.away_matches >= config.min_matches

\* ApplyResult without the update of the away team's tracker.
ApplyResult_home_only(teams, league_tracker, match) ==
    LET t1 == [teams EXCEPT ![match.home] =
                   TeamTrackerUpdate(@, match.home_goals, match.away_goals, TRUE)]
    IN  [teams |-> t1,
         league_tracker |-> [league_tracker EXCEPT ![match.league] =
                   LeagueTrackerUpdate(@, match.home_goals, match.away_goals)]]

\* Lines 446-448.
ApplyResult(teams, league_tracker, match) ==
    LET t1 == [teams EXCEPT ![match.home] =
                   TeamTrackerUpdate(@, match.home_goals, match.away_goals, TRUE)]
        t2 == [t1 EXCEPT ![match.away] =
                   TeamTrackerUpdate(@, match.home_goals, match.away_goals, FALSE)]
    IN  [teams |-> t2,
         league_tracker |-> [league_tracker EXCEPT ![match.league] =
                   LeagueTrackerUpdate(@, match.home_goals, match.away_goals)]]

\* Mutant: the trackers take the result of the match before its gate and
\* its signal are computed.
SimulateMatch_update_first(sim, match, config) ==
    LET teams0 == SetDefault(SetDefault(sim.teams, match.home, NewTeamTracker),
                             match.away, NewTeamTracker)
        leagues0 == SetDefault(sim.league_tracker, match.league, NewLeagueTracker)
        updated == ApplyResult(teams0, leagues0, match)
        home_tracker == updated.teams[match.home]
        away_tracker == updated.teams[match.away]
        league == updated.league_tracker[match.league]
        gate == Gate(home_tracker, away_tracker, config)
        eg == _expected_goals(home_tracker, away_tracker, league,
                              config.shrinkage_k, config.hfa)
        signal == [gate |-> gate, home |-> home_tracker, away |-> away_tracker,
                   league |-> league,
                   lambda_home |-> IF gate THEN eg.lambda_home ELSE 0,
                   lambda_away |-> IF gate THEN eg.lambda_away ELSE 0]
        seen == [sim EXCEPT !.teams = updated.teams,
                            !.league_tracker = updated.league_tracker,
                            !.signals = Append(@, signal)]
    IN  IF gate /\ eg.raised # ""
        THEN [seen EXCEPT !.status = eg.raised]
        ELSE IF gate
        THEN [seen EXCEPT !.status = "AttributeError"]
        ELSE [seen EXCEPT !.next = @ + 1]

\* Mutant: a match below min_matches is skipped altogether (a "continue"
\* before the updates of lines 446-448).
SimulateMatch_skip_update(sim, match, config) ==
    LET teams0 == SetDefault(SetDefault(sim.teams, match.home, NewTeamTracker),
                             match.away, NewTeamTracker)
        leagues0 == SetDefault(sim.league_tracker, match.league, NewLeagueTracker)
        home_tracker == teams0[match.home]
        away_tracker == teams0[match.away]
        league == leagues0[match.league]
        gate == Gate(home_tracker, away_tracker, config)
        eg == _expected_goals(home_tracker, away_tracker, league,
                              config.shrinkage_k, config.hfa)
        signal == [gate |-> gate, home |-> home_tracker, away |-> away_tracker,
                   league |-> league,
                   lambda_home |-> IF gate THEN eg.lambda_home ELSE 0,
                   lambda_away |-> IF gate THEN eg.lambda_away ELSE 0]
        seen == [sim EXCEPT !.teams = teams0, !.league_tracker = leagues0,
                            !.signals = Append(@, signal)]
    IN  IF gate /\ eg.raised # ""
        THEN [seen EXCEPT !.status = eg.raised]
        ELSE IF gate
        THEN [seen EXCEPT !.status = "AttributeError"]
        ELSE [seen EXCEPT !.next = @ + 1]

\* One pass of the loop of lines 342-448.
SimulateMatch(sim, match, config) ==
    LET teams0 == SetDefault(SetDefault(sim.teams, match.home, NewTeamTracker),
                             match.away, NewTeamTracker)
        leagues0 == SetDefault(sim.league_tracker, match.league, NewLeagueTracker)
        home_tracker == teams0[match.home]
        away_tracker == teams0[match.away]
        league == leagues0[match.league]
        outcomes == _match_outcomes(match)
        gate == Gate(home_tracker, away_tracker, config)
        eg == _expected_goals(home_tracker, away_tracker, league,
                              config.shrinkage_k, config.hfa)
        signal == [gate |-> gate, home |-> home_tracker, away |-> away_tracker,
                   league |-> league,
                   lambda_home |-> IF gate THEN eg.lambda_home ELSE 0,
                   lambda_away |-> IF gate THEN eg.lambda_away ELSE 0]
        seen == [sim EXCEPT !.teams = teams0, !.league_tracker = leagues0,
                            !.signals = Append(@, signal)]
        updated == ApplyResult(teams0, leagues0, match)
        model == run_bivariate_poisson(eg.lambda_home, eg.lambda_away)
        \* lines 356-364
        model_probs == [home |-> model.home_win, draw |-> model.draw,
                        away |-> model.away_win, over_25 |-> model.over_25,
                        under_25 |-> model.under_25,
                        btts_yes |-> model.btts_yes, btts_no |-> model.btts_no]
        new_bets(market) == MarketBets(match, config, market, 1,
                                       model_probs, outcomes)
        new_predictions(market) == MarketPredictions(match, config, market, 1,
                                                     model_probs, outcomes)
    IN  IF ~gate
        THEN [seen EXCEPT !.teams = updated.teams,
                          !.league_tracker = updated.league_tracker,
                          !.next = @ + 1]
        ELSE IF eg.raised # ""
        THEN [seen EXCEPT !.status = eg.raised]
        ELSE IF ~(HasAttr(PoissonOutput, "btts_yes")
                     /\ HasAttr(PoissonOutput, "btts_no"))
        THEN [seen EXCEPT !.status = "AttributeError"]
        ELSE [seen EXCEPT
                 !.bets = @ \o new_bets("h2h") \o new_bets("totals")
                            \o new_bets("btts"),
                 !.predictions =
                     [h2h    |-> @.h2h \o new_predictions("h2h"),
                      totals |-> @.totals \o new_predictions("totals"),
                      btts   |-> @.btts \o new_predictions("btts")],
                 !.teams = updated.teams,
                 !.league_tracker = updated.league_tracker,
                 !.next = @ + 1]

\* The loop of _simulate from the state sim on, up to its return or to the
\* exception that ends it.
RECURSIVE SimulateFrom(_, _, _)
SimulateFrom(sim, matches, config) ==
    CHOOSE end \in
        {IF s.status # "running"
         THEN s
         ELSE IF s.next > Len(matches)
         THEN [s EXCEPT !.status = "returned"]
         ELSE SimulateFrom(SimulateMatch(s, matches[s.next], config),
                           matches, config) : s \in {sim}} : TRUE

_simulate(matches, config) == SimulateFrom(NewSimulation, matches, config)

(***************************************************************************)
(* engine/backtest.py: _equity_curve.  Money is in cents, so that the      *)
(* round(x, 2) of the metrics is the unit; roi, win_rate and max_drawdown  *)
(* are in tenths of a percent.  The sharpe metric (a square root) is not   *)
(* carried.                                                                *)
(***************************************************************************)
\* Stake as a share of the starting bankroll instead of the current one.
Stake_of_starting_bankroll(bet, bankroll, config, strategy) ==
    IF strategy = "flat"
    THEN Mul(config.bankroll, config.flat_stake_pct)
    ELSE LET fraction == IF strategy = "kelly" THEN Unit ELSE QUARTER
             stake_pct == kelly_fraction(bet.probability, bet.odds, fraction,
                                         config.kelly_cap)
         IN  Mul(config.bankroll, stake_pct)

\* Lines 465-470.
Stake(bet, bankroll, config, strategy) ==
    IF strategy = "flat"
    THEN Mul(bankroll, config.flat_stake_pct)
    ELSE LET fraction == IF strategy = "kelly" THEN Unit ELSE QUARTER
             stake_pct == kelly_fraction(bet.probability, bet.odds, fraction,
                                         config.kelly_cap)
         IN  Mul(bankroll, stake_pct)

\* EquityBet with the skipped bet still drawn on the curve.
EquityBet_plots_skipped(acc, bet, config, strategy) ==
    LET stake == Stake(bet, acc.bankroll, config, strategy)
        profit == IF bet.won THEN Mul(stake, bet.odds - Unit) ELSE 0 - stake
    IN  IF stake <= 0
        THEN [acc EXCEPT !.equity = Append(@, [label |-> bet.date,
                                               value |-> acc.bankroll])]
        ELSE [bankroll |-> acc.bankroll + profit,
              equity |-> Append(acc.equity,
                                [label |-> bet.date,
                                 value |-> acc.bankroll + profit]),
              total_profit |-> acc.total_profit + profit,
              total_staked |-> acc.total_staked + stake,
              returns |-> Append(acc.returns, Div(profit, stake)),
              wins |-> acc.wins + (IF bet.won THEN 1 ELSE 0)]

\* One pass of the loop of lines 464-482.
EquityBet(acc, bet, config, strategy) ==
    LET stake == Stake(bet, acc.bankroll, config, strategy)
        profit == IF bet.won THEN Mul(stake, bet.odds - Unit) ELSE 0 - stake
    IN  IF stake <= 0
        THEN acc
        ELSE [bankroll |-> acc.bankroll + profit,
              equity |-> Append(acc.equity,
                                [label |-> bet.date,
                                 value |-> acc.bankroll + profit]),
              total_profit |-> acc.total_profit + profit,
              total_staked |-> acc.total_staked + stake,
              returns |-> Append(acc.returns, Div(profit, stake)),
              wins |-> acc.wins + (IF bet.won THEN 1 ELSE 0)]

RECURSIVE EquityLoop(_, _, _, _, _)
EquityLoop(acc, bets, i, config, strategy) ==
    IF i > Len(bets)
    THEN acc
    ELSE CHOOSE end \in
             {EquityLoop(next, bets, i + 1, config, strategy) :
                 next \in {EquityBet(acc, bets[i], config, strategy)}} : TRUE

\* MaxDrawdown measured from the starting bankroll instead of the running
\* peak.
RECURSIVE MaxDrawdown_from_start(_, _, _, _)
MaxDrawdown_from_start(equity, i, peak, max_drawdown) ==
    IF i > Len(equity)
    THEN max_drawdown
    ELSE LET value == equity[i].value
             drawdown == IF peak # 0 THEN Div(peak - value, peak) ELSE 0
         IN  CHOOSE end \in
                 {MaxDrawdown_from_start(equity, i + 1, p, d) :
                     p \in {peak}, d \in {Max(drawdown, max_drawdown)}} : TRUE

\* Lines 493-500.
RECURSIVE MaxDrawdown(_, _, _, _)
MaxDrawdown(equity, i, peak, max_drawdown) ==
    IF i > Len(equity)
    THEN max_drawdown
    ELSE LET value == equity[i].value
             peak1 == IF value > peak THEN value ELSE peak
             drawdown == IF peak1 # 0 THEN Div(peak1 - value, peak1) ELSE 0
         IN  CHOOSE end \in
                 {MaxDrawdown(equity, i + 1, p, d) :
                     p \in {peak1}, d \in {Max(drawdown, max_drawdown)}} : TRUE

\* Lines 459-463: the locals before the loop.
EquityStart(config) ==
    [bankroll |-> config.bankroll,
     equity |-> << [label |-> "start", value |-> config.bankroll] >>,
     total_profit |-> 0, total_staked |-> 0,
     returns |-> <<>>, wins |-> 0]

\* Lines 484-511: the metrics dict, from the locals after the loop.
EquityMetrics(end) ==
    LET roi == IF end.total_staked # 0
               THEN Div(end.total_profit, end.total_staked) ELSE 0
        hit_rate == IF end.returns # <<>>
                    THEN Div(end.wins, Len(end.returns)) ELSE 0
    IN  [roi |-> roi, profit |-> end.total_profit,
         staked |-> end.total_staked, win_rate |-> hit_rate,
         max_drawdown |-> MaxDrawdown(end.equity, 1, end.equity[1].value, 0),
         bets |-> Len(end.returns),
         ending_bankroll |-> end.bankroll]

_equity_curve(bets, config, strategy) ==
    LET end == EquityLoop(EquityStart(config), bets, 1, config, strategy)
    IN  [equity |-> end.equity, metrics |-> EquityMetrics(end)]

(***************************************************************************)
(* engine/backtest.py: run_backtest.  A date is a month, year * 12 +       *)
(* month - 1.                                                              *)
(***************************************************************************)
TRAIN_SEASONS == <<2021, 2022>>

TEST_SEASONS == <<2023>>

InSeq(x, q) == \E i \in 1 .. Len(q) : q[i] = x

_season_start(date) ==
    LET year == date \div 12
        month == (date % 12) + 1
    IN  IF month >= 7 THEN year ELSE year - 1

\* Lines 591-599.
\* Mutant: the fallback of line 596 is taken when the configured seasons
\* lack a group, not when a split is empty.
Split_configured(matches, config) ==
    LET InTrain(season) == InSeq(season, TRAIN_SEASONS)
        InTest(season) == InSeq(season, TEST_SEASONS)
        train_seasons == SelectSeq(config.seasons, InTrain)
        test_seasons == SelectSeq(config.seasons, InTest)
        TrainMatch(match) == InSeq(_season_start(match.date), train_seasons)
        TestMatch(match) == InSeq(_season_start(match.date), test_seasons)
        train_matches == SelectSeq(matches, TrainMatch)
        test_matches == SelectSeq(matches, TestMatch)
        split_idx == (Len(matches) * 7) \div 10
    IN  IF train_seasons = <<>> \/ test_seasons = <<>>
        THEN [train_seasons |-> train_seasons, test_seasons |-> test_seasons,
              train_matches |-> SubSeq(matches, 1, split_idx),
              test_matches |-> SubSeq(matches, split_idx + 1, Len(matches))]
        ELSE [train_seasons |-> train_seasons, test_seasons |-> test_seasons,
              train_matches |-> train_matches, test_matches |-> test_matches]

Split(matches, config) ==
    LET InTrain(season) == InSeq(season, TRAIN_SEASONS)
        InTest(season) == InSeq(season, TEST_SEASONS)
        train_seasons == SelectSeq(config.seasons, InTrain)
        test_seasons == SelectSeq(config.seasons, InTest)
        TrainMatch(match) == InSeq(_season_start(match.date), train_seasons)
        TestMatch(match) == InSeq(_season_start(match.date), test_seasons)
        train_matches == SelectSeq(matches, TrainMatch)
        test_matches == SelectSeq(matches, TestMatch)
        split_idx == (Len(matches) * 7) \div 10
    IN  IF train_matches = <<>> \/ test_matches = <<>>
        THEN [train_seasons |-> train_seasons, test_seasons |-> test_seasons,
              train_matches |-> SubSeq(matches, 1, split_idx),
              test_matches |-> SubSeq(matches, split_idx + 1, Len(matches))]
        ELSE [train_seasons |-> train_seasons, test_seasons |-> test_seasons,
              train_matches |-> train_matches, test_matches |-> test_matches]

grid_k == <<30, 50, 70>>

grid_blend == <<450, 500, 550>>

grid_hfa == <<1050, 1080, 1110>>

grid_edge == <<50, 70, 100>>

MIN_BETS == 30

\* float("-inf"): below every roi, which is at least -100%.
NEG_INF == 0 - 1000 * Unit

BestParams(k, blend, hfa, edge) ==
    [shrinkage_k |-> k, blend_model_weight |-> blend, hfa |-> hfa,
     edge_threshold |-> edge]

\* The BacktestConfig built at lines 617-629, 633-645 and 660-672.
TrialConfig(config, params) ==
    [config EXCEPT !.shrinkage_k = params.shrinkage_k,
                   !.blend_model_weight = params.blend_model_weight,
                   !.hfa = params.hfa,
                   !.edge_threshold = params.edge_threshold]

\* The loop "for edge in grid_edge" of lines 631-658 from its e-th pass on.
\* acc.trials records, for every combination tried, the bets it placed and
\* its roi.
RECURSIVE EdgeLoop(_, _, _, _, _, _, _)
EdgeLoop(acc, all_bets, config, k, blend, hfa, e) ==
    IF e > Len(grid_edge)
    THEN acc
    ELSE LET edge == grid_edge[e]
             Kept(b) == b.edge > edge
             filtered == SelectSeq(all_bets, Kept)
             params == BestParams(k, blend, hfa, edge)
             Tried(metrics) ==
                 [acc EXCEPT !.trials =
                     Append(@, [params |-> params, bets |-> metrics.bets,
                                roi |-> metrics.roi])]
             Updated(metrics) ==
                 IF metrics.bets < MIN_BETS
                 THEN Tried(metrics)
                 ELSE IF metrics.roi > acc.best_roi
                 THEN [Tried(metrics) EXCEPT !.best_roi = metrics.roi,
                                             !.best_params = params]
                 ELSE Tried(metrics)
         IN  CHOOSE end \in
                 {EdgeLoop(next, all_bets, config, k, blend, hfa, e + 1) :
                     next \in {Updated(m) : m \in
                         {_equity_curve(filtered, TrialConfig(config, params),
                                        "quarter").metrics}}} : TRUE

\* The three nested loops of lines 614-658 are walked in loop order: pass c
\* (from 0) has k = grid_k[c / 9], blend = grid_blend[(c / 3) mod 3] and
\* hfa = grid_hfa[c mod 3].
GridPasses == Len(grid_k) * Len(grid_blend) * Len(grid_hfa)

\* Pass c of the loops (lines 617-658).  An exception of _simulate ends
\* run_backtest.
GridPass(acc, c, train_matches, config) ==
    LET k == grid_k[(c \div (Len(grid_blend) * Len(grid_hfa))) + 1]
        blend == grid_blend[((c \div Len(grid_hfa)) % Len(grid_blend)) + 1]
        hfa == grid_hfa[(c % Len(grid_hfa)) + 1]
        trial_base == TrialConfig(config, BestParams(k, blend, hfa, 0))
    IN  CHOOSE end \in
            {IF run.status # "returned"
             THEN [acc EXCEPT !.raised = run.status]
             ELSE EdgeLoop(acc, run.bets, config, k, blend, hfa, 1) :
                run \in {_simulate(train_matches, trial_base)}} : TRUE

\* Lines 674-711; the calibration, edge distribution and roi tables of the
\* report are not carried.
Report(matches, split, best_params, train, test, optimized) ==
    LET strategies ==
            [kelly |-> _equity_curve(test.bets, optimized, "kelly").metrics,
             quarter_kelly |-> _equity_curve(test.bets, optimized, "quarter").metrics,
             flat |-> _equity_curve(test.bets, optimized, "flat").metrics]
    IN  [summary |-> [matches |-> Len(matches),
                      train |-> _equity_curve(train.bets, optimized, "quarter").metrics,
                      test |-> strategies.quarter_kelly,
                      best_params |-> best_params,
                      split |-> [train_seasons |-> split.train_seasons,
                                 test_seasons |-> split.test_seasons]],
         strategies |-> strategies,
         bets |-> Len(test.bets)]

\* The state of one run_backtest call: where it stands, its locals and what
\* it gave back: an {"error": ...} dict, a report, or an exception.
NoResult == [kind |-> "none", error |-> "", exception |-> "", report |-> <<>>]

NewBacktest ==
    [pc |-> "load", c |-> 0, matches |-> <<>>, train_matches |-> <<>>,
     test_matches |-> <<>>, train_seasons |-> <<>>, test_seasons |-> <<>>,
     best_params |-> <<>>, best_roi |-> NEG_INF, trials |-> <<>>,
     result |-> NoResult]

(***************************************************************************)
(* Inputs of kelly_fraction.  Two (probability, odds) pairs are sized with *)
(* the same fraction and cap.                                              *)
(***************************************************************************)
MaxProbStep == 10
MaxOddsStep == 10

KellyProbs == {i * 100 : i \in -1 .. MaxProbStep}

KellyOdds == {j * 500 : j \in 1 .. MaxOddsStep}

\* fraction: full Kelly and quarter Kelly (_equity_curve), cap: 0, the
\* default of kelly_fraction and the default of BacktestConfig.
KellyFractions == {Unit, 250}

KellyCaps == {0, 100, 150}

KellyArgs == [probability : KellyProbs, odds : KellyOdds]

KellyIdle ==
    /\ k_in = [a |-> [probability |-> 0, odds |-> 0],
               b |-> [probability |-> 0, odds |-> 0],
               fraction |-> 0, cap |-> 0]
    /\ k_out = [returned |-> TRUE, a |-> 0, b |-> 0]

KellyInputs ==
    /\ k_in \in [a : KellyArgs, b : KellyArgs,
                  fraction : KellyFractions, cap : KellyCaps]
    /\ k_out = [returned |-> FALSE, a |-> 0, b |-> 0]

KellyCall ==
    /\ ~k_out.returned
    /\ k_out' = [returned |-> TRUE,
                 a |-> kelly_fraction(k_in.a.probability, k_in.a.odds,
                                      k_in.fraction, k_in.cap),
                 b |-> kelly_fraction(k_in.b.probability, k_in.b.odds,
                                      k_in.fraction, k_in.cap)]
    /\ UNCHANGED <<k_in, dvb_in, dvb_out, sim_matches, sim_config, simulation,
                   backtest,
                   confidence, poisson, dixon_coles, market_model,
                   equity_curve, scheduler, team_tracker>>

(***************************************************************************)
(* Inputs of detect_value_bets: model probabilities and market odds on     *)
(* any sets of h2h outcomes, so that an outcome may be priced and not      *)
(* modelled, or modelled and not priced.                                   *)
(***************************************************************************)
MaxDetectProbStep == 3

ProbStep == Unit \div 4

DetectProbs == {i * ProbStep : i \in 1 .. MaxDetectProbStep}

DetectOdds == {2 * Unit, 3 * Unit, 16 * Unit}

\* 0.03 is the default of detect_value_bets; 0 and the edge ceiling are the
\* thresholds an edge can equal exactly.
DetectThresholds == {0, 30, EDGE_CAP}

Outcomes == {OutcomeOrder[i] : i \in 1 .. Len(OutcomeOrder)}

Dicts(values) == UNION {[keys -> values] : keys \in SUBSET Outcomes}

DetectIdle ==
    /\ dvb_in = [model_probs |-> <<>>, market_odds |-> <<>>, threshold |-> 0]
    /\ dvb_out = [returned |-> TRUE, value_bets |-> <<>>]

DetectInputs ==
    /\ dvb_in \in [model_probs : Dicts(DetectProbs) \ {<<>>},
                    market_odds : Dicts(DetectOdds),
                    threshold : DetectThresholds]
    /\ dvb_out = [returned |-> FALSE, value_bets |-> <<>>]

DetectCall ==
    /\ ~dvb_out.returned
    /\ dvb_out' = [returned |-> TRUE,
                   value_bets |-> detect_value_bets(dvb_in.model_probs,
                                                    dvb_in.market_odds,
                                                    dvb_in.threshold)]
    /\ UNCHANGED <<k_in, k_out, dvb_in, sim_matches, sim_config, simulation,
                   backtest,
                   confidence, poisson, dixon_coles, market_model,
                   equity_curve, scheduler, team_tracker>>

(***************************************************************************)
(* Inputs of _simulate: a list of matches in ascending date order, as      *)
(* load_matches returns it (line 196), and a BacktestConfig.               *)
(* A date is a month: year * 12 + month - 1.                               *)
(***************************************************************************)
MaxMatches == 3
MaxMinMatches == 2

Date(year, month) == year * 12 + month - 1

Dates == {Date(2021, 8), Date(2023, 9)}

Teams == {"Ajax", "Benfica", "Celta", "Dortmund"}

Scores == {<<1, 0>>, <<1, 1>>, <<0, 2>>}

\* Prices of a match: every market priced, the away win beyond the odds
\* ceiling of 15.0, no closing average for it.
Prices ==
    [odds_h |-> 2100, odds_d |-> 3400, odds_a |-> 16000,
     odds_over25 |-> 1900, odds_under25 |-> 2000,
     odds_btts_yes |-> 1800, odds_btts_no |-> 2000,
     avg_h |-> 2050, avg_d |-> 3300, avg_a |-> 0]

MatchRecord(date, league, home, away, score) ==
    [date |-> date, league |-> league, home |-> home, away |-> away,
     home_goals |-> score[1], away_goals |-> score[2],
     odds_h |-> Prices.odds_h, odds_d |-> Prices.odds_d,
     odds_a |-> Prices.odds_a,
     odds_over25 |-> Prices.odds_over25, odds_under25 |-> Prices.odds_under25,
     odds_btts_yes |-> Prices.odds_btts_yes, odds_btts_no |-> Prices.odds_btts_no,
     avg_h |-> Prices.avg_h, avg_d |-> Prices.avg_d, avg_a |-> Prices.avg_a]

Fixtures == {f \in Teams \X Teams : f[1] # f[2]}

MatchRecords ==
    {MatchRecord(d, "E0", f[1], f[2], sc) :
        d \in Dates, f \in Fixtures, sc \in Scores}

\* No team plays twice on one date.
Clash(m1, m2) ==
    m1.date = m2.date /\ {m1.home, m1.away} \cap {m2.home, m2.away} # {}

\* m can follow the rows of q in a list sorted by date.
CanFollow(q, m) ==
    \A i \in 1 .. Len(q) : q[i].date <= m.date /\ ~Clash(q[i], m)

\* The lists of n of the given rows in ascending date order.
RECURSIVE MatchLists(_, _)
MatchLists(n, rows) ==
    IF n = 0 THEN {<<>>}
    ELSE {Append(x[1], x[2]) :
            x \in {y \in MatchLists(n - 1, rows) \X rows : CanFollow(y[1], y[2])}}

\* BacktestConfig with the defaults of lines 24-35.
DefaultConfig ==
    [seasons |-> <<2021, 2022, 2023>>, leagues |-> <<"EPL">>,
     shrinkage_k |-> 50, blend_model_weight |-> 500, hfa |-> 1070,
     edge_threshold |-> 50, min_matches |-> 5, bankroll |-> 1000 * 100,
     flat_stake_pct |-> 10, kelly_cap |-> 150, markets |-> <<"totals">>]

SimulateIdle ==
    /\ sim_matches = <<>>
    /\ sim_config = DefaultConfig
    /\ simulation = [NewSimulation EXCEPT !.status = "returned"]

SimulateInputs ==
    /\ sim_matches \in UNION {MatchLists(n, MatchRecords) : n \in 0 .. MaxMatches}
    /\ sim_config \in {[DefaultConfig EXCEPT !.min_matches = m,
                                         !.markets = <<"h2h", "totals", "btts">>] :
                      m \in 0 .. MaxMinMatches}
    /\ simulation = NewSimulation

\* One pass of the loop of _simulate; an exception ends the call.
SimulateStep ==
    /\ simulation.status = "running"
    /\ simulation.next <= Len(sim_matches)
    /\ simulation' = SimulateMatch(simulation, sim_matches[simulation.next],
                                 sim_config)
    /\ UNCHANGED <<k_in, k_out, dvb_in, dvb_out, sim_matches, sim_config, backtest,
                   confidence, poisson, dixon_coles, market_model,
                   equity_curve, scheduler, team_tracker>>

\* Line 450: the loop is over.
SimulateReturn ==
    /\ simulation.status = "running"
    /\ simulation.next > Len(sim_matches)
    /\ simulation' = [simulation EXCEPT !.status = "returned"]
    /\ UNCHANGED <<k_in, k_out, dvb_in, dvb_out, sim_matches, sim_config, backtest,
                   confidence, poisson, dixon_coles, market_model,
                   equity_curve, scheduler, team_tracker>>

(***************************************************************************)
(* Inputs of run_backtest: the config and the rows load_matches finds, in  *)
(* ascending date order.                                                   *)
(***************************************************************************)
BacktestIdle == backtest = [NewBacktest EXCEPT !.pc = "done"]

BacktestFixtures ==
    {<<"Ajax", "Benfica">>, <<"Celta", "Dortmund">>, <<"Ajax", "Celta">>}

BacktestScores == {<<1, 1>>, <<0, 2>>}

BacktestRecords ==
    {MatchRecord(d, "E0", f[1], f[2], sc) :
        d \in Dates, f \in BacktestFixtures, sc \in BacktestScores}

\* The rows load_matches can find: those of BacktestRecords, and rows from
\* the last month of a season (June 2023 is of the season that starts in
\* 2022).
LoadedRecords ==
    BacktestRecords
      \cup {MatchRecord(Date(2023, 6), "E0", f[1], f[2], <<1, 1>>) :
                f \in BacktestFixtures}

\* config.seasons: the default three seasons, and the test season alone.
BacktestSeasons == {<<2021, 2022, 2023>>, <<2023>>}

\* load_matches reads the file of each configured season: the rows found
\* are of these seasons.
OfSeasons(matches, seasons) ==
    \A i \in 1 .. Len(matches) : InSeq(_season_start(matches[i].date), seasons)

BacktestInputs ==
    /\ sim_config \in {[DefaultConfig EXCEPT !.seasons = seasons,
                                         !.min_matches = m,
                                         !.markets = <<"h2h", "totals", "btts">>] :
                      seasons \in BacktestSeasons, m \in 0 .. MaxMinMatches}
    /\ sim_matches \in {matches \in UNION {MatchLists(n, LoadedRecords) :
                                             n \in 0 .. MaxMatches} :
                           OfSeasons(matches, sim_config.seasons)}
    /\ simulation = [NewSimulation EXCEPT !.status = "returned"]
    /\ backtest = NewBacktest

\* Lines 587-612: load, the empty case, the split, the starting best_params.
RunLoad ==
    /\ backtest.pc = "load"
    /\ backtest' =
         IF sim_matches = <<>>
         THEN [backtest EXCEPT !.pc = "done",
                               !.result = [NoResult EXCEPT
                                   !.kind = "error",
                                   !.error = "No historical data found"]]
         ELSE LET split == Split(sim_matches, sim_config)
              IN  [backtest EXCEPT
                      !.pc = "grid",
                      !.matches = sim_matches,
                      !.train_matches = split.train_matches,
                      !.test_matches = split.test_matches,
                      !.train_seasons = split.train_seasons,
                      !.test_seasons = split.test_seasons,
                      !.best_params = BestParams(sim_config.shrinkage_k,
                                                 sim_config.blend_model_weight,
                                                 sim_config.hfa,
                                                 sim_config.edge_threshold),
                      !.best_roi = NEG_INF]
    /\ UNCHANGED <<k_in, k_out, dvb_in, dvb_out, sim_matches, sim_config,
                   simulation,
                   confidence, poisson, dixon_coles, market_model,
                   equity_curve, scheduler, team_tracker>>

\* Lines 614-658: one pass of the grid search, for one (k, blend, hfa).
RunGrid ==
    /\ backtest.pc = "grid"
    /\ \E acc \in {GridPass([best_params |-> backtest.best_params,
                             best_roi |-> backtest.best_roi,
                             trials |-> backtest.trials, raised |-> ""],
                            backtest.c, backtest.train_matches, sim_config)} :
         backtest' =
             IF acc.raised # ""
             THEN [backtest EXCEPT !.pc = "done",
                                   !.result = [NoResult EXCEPT
                                       !.kind = "raised",
                                       !.exception = acc.raised]]
             ELSE [backtest EXCEPT !.pc = IF backtest.c + 1 < GridPasses
                                          THEN "grid" ELSE "report",
                                   !.c = @ + 1,
                                   !.trials = acc.trials,
                                   !.best_params = acc.best_params,
                                   !.best_roi = acc.best_roi]
    /\ UNCHANGED <<k_in, k_out, dvb_in, dvb_out, sim_matches, sim_config,
                   simulation,
                   confidence, poisson, dixon_coles, market_model,
                   equity_curve, scheduler, team_tracker>>

\* Lines 660-712: the replay of both splits under the parameters kept and
\* the report.
RunReport ==
    /\ backtest.pc = "report"
    /\ LET optimized == TrialConfig(sim_config, backtest.best_params)
           split == [train_seasons |-> backtest.train_seasons,
                     test_seasons |-> backtest.test_seasons]
       IN  \E train \in {_simulate(backtest.train_matches, optimized)},
              test \in {_simulate(backtest.test_matches, optimized)} :
             backtest' =
               IF train.status # "returned"
               THEN [backtest EXCEPT !.pc = "done",
                                     !.result = [NoResult EXCEPT
                                         !.kind = "raised",
                                         !.exception = train.status]]
               ELSE IF test.status # "returned"
               THEN [backtest EXCEPT !.pc = "done",
                                     !.result = [NoResult EXCEPT
                                         !.kind = "raised",
                                         !.exception = test.status]]
               ELSE [backtest EXCEPT !.pc = "done",
                                     !.result = [NoResult EXCEPT
                                         !.kind = "report",
                                         !.report = Report(backtest.matches, split,
                                                           backtest.best_params,
                                                           train, test, optimized)]]
    /\ UNCHANGED <<k_in, k_out, dvb_in, dvb_out, sim_matches, sim_config,
                   simulation,
                   confidence, poisson, dixon_coles, market_model,
                   equity_curve, scheduler, team_tracker>>

(***************************************************************************)
(* run_backtest with the _simulate call of each grid pass taken match by   *)
(* match: backtest.pc is "trial" while the call of pass backtest.c runs,   *)
(* and simulation holds its locals.                                        *)
(***************************************************************************)
\* trial_base of pass c (lines 617-629).
TrialBase(config, c) ==
    LET k == grid_k[(c \div (Len(grid_blend) * Len(grid_hfa))) + 1]
        blend == grid_blend[((c \div Len(grid_hfa)) % Len(grid_blend)) + 1]
        hfa == grid_hfa[(c % Len(grid_hfa)) + 1]
    IN  TrialConfig(config, BestParams(k, blend, hfa, 0))

\* Mutant: the tracker dicts outlive the call that made them.
TrialLocals_kept(previous) ==
    [NewSimulation EXCEPT !.teams = previous.teams,
                          !.league_tracker = previous.league_tracker]

\* Lines 337-340: the locals of a _simulate call, whatever an earlier call
\* left behind.
TrialLocals(previous) == NewSimulation

\* Line 630, to the entry of _simulate.
TrialCall ==
    /\ backtest.pc = "grid"
    /\ backtest' = [backtest EXCEPT !.pc = "trial"]
    /\ simulation' = TrialLocals(simulation)
    /\ UNCHANGED <<k_in, k_out, dvb_in, dvb_out, sim_matches, sim_config,
                   confidence, poisson, dixon_coles, market_model,
                   equity_curve, scheduler, team_tracker>>

\* One pass of the loop of _simulate within the call of line 630.
TrialStep ==
    /\ backtest.pc = "trial"
    /\ simulation.status = "running"
    /\ simulation.next <= Len(backtest.train_matches)
    /\ simulation' = SimulateMatch(simulation,
                                   backtest.train_matches[simulation.next],
                                   TrialBase(sim_config, backtest.c))
    /\ UNCHANGED <<k_in, k_out, dvb_in, dvb_out, sim_matches, sim_config,
                   backtest, confidence, poisson, dixon_coles, market_model,
                   equity_curve, scheduler, team_tracker>>

\* The call of line 630 returns or raises; lines 631-658 for its bets.
TrialReturn ==
    /\ backtest.pc = "trial"
    /\ simulation.status # "running"
         \/ simulation.next > Len(backtest.train_matches)
    /\ simulation' = IF simulation.status = "running"
                     THEN [simulation EXCEPT !.status = "returned"]
                     ELSE simulation
    /\ LET config == TrialBase(sim_config, backtest.c)
       IN  \E acc \in {EdgeLoop([best_params |-> backtest.best_params,
                                 best_roi |-> backtest.best_roi,
                                 trials |-> backtest.trials, raised |-> ""],
                                simulation.bets, sim_config, config.shrinkage_k,
                                config.blend_model_weight, config.hfa, 1)} :
             backtest' =
                 IF simulation.status # "running"
                 THEN [backtest EXCEPT !.pc = "done",
                                       !.result = [NoResult EXCEPT
                                           !.kind = "raised",
                                           !.exception = simulation.status]]
                 ELSE [backtest EXCEPT !.pc = IF backtest.c + 1 < GridPasses
                                              THEN "grid" ELSE "report",
                                       !.c = @ + 1,
                                       !.trials = acc.trials,
                                       !.best_params = acc.best_params,
                                       !.best_roi = acc.best_roi]
    /\ UNCHANGED <<k_in, k_out, dvb_in, dvb_out, sim_matches, sim_config,
                   confidence, poisson, dixon_coles, market_model,
                   equity_curve, scheduler, team_tracker>>

(***************************************************************************)
(* engine/confidence.py.  The five signals are in ten-thousandths, the     *)
(* weights in hundredths, so that the weighted sum is in millionths; the   *)
(* score returned is in hundredths of a point (47.25 is 4725).             *)
(***************************************************************************)
CONF_UNIT == 10 * Unit

W_EDGE == 30

W_CONVERGENCE == 25

W_VOLUME == 20

W_STABILITY == 15

W_INEFFICIENCY == 10

\* Lines 13-19: the weighted sum, in millionths.
Score(edge, convergence, volume, stability, inefficiency) ==
    edge * W_EDGE + convergence * W_CONVERGENCE + volume * W_VOLUME
      + stability * W_STABILITY + inefficiency * W_INEFFICIENCY

\* round(x, 2) of a value x of `millionths' hundredths of a percent: the
\* nearest hundredth.  On an exact tie the float that carries x decides, so
\* both neighbours can come out.
Round2(millionths) ==
    LET q == millionths \div 100
        r == millionths % 100
    IN  IF r < 50 THEN {q} ELSE IF r > 50 THEN {q + 1} ELSE {q, q + 1}

\* Mutant: line 21 without max(0.0, min(..., 100.0)).
compute_confidence_no_clamp(edge, convergence, volume, stability, inefficiency) ==
    Round2(Score(edge, convergence, volume, stability, inefficiency))

\* Lines 6-21.  score * 100 is the sum in units of 1/10000 of a point, 100.0
\* is 100 * CONF_UNIT of them.  The set of values round() can give.
compute_confidence(edge, convergence, volume, stability, inefficiency) ==
    Round2(Max(0, Min(Score(edge, convergence, volume, stability, inefficiency),
                      100 * CONF_UNIT)))

(***************************************************************************)
(* Inputs of compute_confidence: signals inside and outside [0, 1], with   *)
(* the call of main.py among them.                                         *)
(***************************************************************************)
ConfEdges == {0 - 5000, 0, 1000, 1234, 20000}

ConfConvergences == {0 - 1, 0, 7000, 7003, 10000}

ConfVolumes == {0, 6000, 15000}

ConfStabilities == {0, 6500, 6501}

ConfInefficiencies == {0 - 3000, 5000, 10000}

ConfidenceArgs ==
    [edge : ConfEdges, convergence : ConfConvergences, volume : ConfVolumes,
     stability : ConfStabilities, inefficiency : ConfInefficiencies]

ConfidenceIdle == confidence = [returned |-> TRUE]

ConfidenceInputs ==
    confidence \in {[args |-> args, returned |-> FALSE, score |-> 0] :
                       args \in ConfidenceArgs}

ConfidenceCall ==
    /\ ~confidence.returned
    /\ \E score \in compute_confidence(confidence.args.edge,
                                       confidence.args.convergence,
                                       confidence.args.volume,
                                       confidence.args.stability,
                                       confidence.args.inefficiency) :
           confidence' = [confidence EXCEPT !.returned = TRUE, !.score = score]
    /\ UNCHANGED <<k_in, k_out, dvb_in, dvb_out, sim_matches, sim_config,
                   simulation, backtest, poisson, dixon_coles, market_model,
                   equity_curve, scheduler, team_tracker>>

(***************************************************************************)
(* Inputs of run_bivariate_poisson: expected-goals pairs across the range  *)
(* [0.2, 5.0] the adapters clamp to.  The call is taken in two steps, the  *)
(* matrix (line 104) and the summary with the output (lines 105-115).      *)
(***************************************************************************)
PoissonLambdas == {200, 500, 900, 1300, 1800, 2600, 5000}

\* poisson.pmf(k, mu) is nan for mu < 0, and so is every sum it enters: the
\* matrix and the summary of a call with a negative expected-goals value.
NaN == "nan"

NanSummary ==
    [home_win |-> NaN, draw |-> NaN, away_win |-> NaN, over_25 |-> NaN,
     under_25 |-> NaN]

NewPoisson(lambda_home, lambda_away) ==
    [lambda_home |-> lambda_home, lambda_away |-> lambda_away,
     pc |-> "matrix", matrix |-> <<>>, nan |-> FALSE, output |-> <<>>]

PoissonInputs ==
    poisson \in {NewPoisson(lambda_home, lambda_away) :
                    lambda_home \in PoissonLambdas, lambda_away \in PoissonLambdas}

\* Line 104.
PoissonMatrix ==
    /\ poisson.pc = "matrix"
    /\ poisson' = [poisson EXCEPT
           !.pc = "summary",
           !.matrix = IF poisson.lambda_home < 0 \/ poisson.lambda_away < 0
                      THEN NaN
                      ELSE build_score_matrix(poisson.lambda_home,
                                              poisson.lambda_away,
                                              LAMBDA_SHARED, MAX_GOALS),
           !.nan = poisson.lambda_home < 0 \/ poisson.lambda_away < 0]
    /\ UNCHANGED <<k_in, k_out, dvb_in, dvb_out, sim_matches, sim_config,
                   simulation, backtest, confidence, dixon_coles, market_model,
                   equity_curve, scheduler, team_tracker>>

\* Lines 105-115.
PoissonReturn ==
    /\ poisson.pc = "summary"
    /\ poisson' = [poisson EXCEPT
           !.pc = "done",
           !.output = IF poisson.nan
                      THEN NewPoissonOutput(poisson.lambda_home,
                                            poisson.lambda_away, LAMBDA_SHARED,
                                            NaN, NanSummary)
                      ELSE NewPoissonOutput(poisson.lambda_home,
                                            poisson.lambda_away, LAMBDA_SHARED,
                                            poisson.matrix,
                                            summarize_from_matrix(poisson.matrix))]
    /\ UNCHANGED <<k_in, k_out, dvb_in, dvb_out, sim_matches, sim_config,
                   simulation, backtest, confidence, dixon_coles, market_model,
                   equity_curve, scheduler, team_tracker>>

PoissonIdle == poisson = [pc |-> "done"]

(***************************************************************************)
(* Inputs of run_dixon_coles: the four xG rates of scheduler.py lines      *)
(* 197-203 and the league averages, with the defaults for hfa, rho and     *)
(* max_goals, and the form of the two teams.  The call is taken in three   *)
(* steps: the expected goals (lines 55-75), the matrix (lines 77-87), the  *)
(* summary and the output (lines 88-101).                                  *)
(***************************************************************************)
XgRates == {0, 700, 1400, 4000}

LeagueAverages == {[avg_xg_home |-> 0, avg_xg_away |-> 0],
                   [avg_xg_home |-> 1500, avg_xg_away |-> 1200]}

Forms == {<<500, 500>>, <<1000, 0>>}

DixonColesArgs ==
    [xg_att_home : XgRates, xga_def_away : XgRates, xg_att_away : XgRates,
     xga_def_home : XgRates, league_avg : LeagueAverages, hfa : {DEFAULT_HFA},
     rho : {DEFAULT_RHO}, max_goals : {MAX_GOALS}, form : Forms]

NewDixonColes(args) ==
    [args |-> args, pc |-> "lambdas", lambda_home |-> 0, lambda_away |-> 0,
     cells |-> <<>>, score_matrix |-> <<>>, raised |-> "", output |-> <<>>]

DixonColesInputs == dixon_coles \in {NewDixonColes(args) : args \in DixonColesArgs}

DixonColesIdle == dixon_coles = [pc |-> "done"]

\* Lines 55-75.
DixonLambdas ==
    /\ dixon_coles.pc = "lambdas"
    /\ \E lambdas \in {DixonColesLambdas(dixon_coles.args.xg_att_home,
                                         dixon_coles.args.xga_def_away,
                                         dixon_coles.args.xg_att_away,
                                         dixon_coles.args.xga_def_home,
                                         dixon_coles.args.league_avg,
                                         dixon_coles.args.hfa,
                                         dixon_coles.args.form[1],
                                         dixon_coles.args.form[2])} :
           dixon_coles' = [dixon_coles EXCEPT !.pc = "matrix",
                                              !.lambda_home = lambdas.lambda_home,
                                              !.lambda_away = lambdas.lambda_away]
    /\ UNCHANGED <<k_in, k_out, dvb_in, dvb_out, sim_matches, sim_config,
                   simulation, backtest, confidence, poisson, market_model,
                   equity_curve, scheduler, team_tracker>>

\* Lines 77-87.
DixonMatrix ==
    /\ dixon_coles.pc = "matrix"
    /\ \E cells \in {DixonColesCells(dixon_coles.lambda_home,
                                     dixon_coles.lambda_away,
                                     dixon_coles.args.rho,
                                     dixon_coles.args.max_goals)} :
           dixon_coles' = [dixon_coles EXCEPT
               !.pc = "summary",
               !.cells = cells,
               !.score_matrix = Normalized(cells, dixon_coles.args.max_goals)]
    /\ UNCHANGED <<k_in, k_out, dvb_in, dvb_out, sim_matches, sim_config,
                   simulation, backtest, confidence, poisson, market_model,
                   equity_curve, scheduler, team_tracker>>

\* Lines 88-101.
DixonReturn ==
    /\ dixon_coles.pc = "summary"
    /\ \E result \in {DixonColesOutput(dixon_coles.lambda_home,
                                       dixon_coles.lambda_away,
                                       dixon_coles.score_matrix,
                                       summarize_from_matrix(
                                           dixon_coles.score_matrix))} :
           dixon_coles' = [dixon_coles EXCEPT !.pc = "done",
                                              !.raised = result.raised,
                                              !.output = result.output]
    /\ UNCHANGED <<k_in, k_out, dvb_in, dvb_out, sim_matches, sim_config,
                   simulation, backtest, confidence, poisson, market_model,
                   equity_curve, scheduler, team_tracker>>

(***************************************************************************)
(* Inputs of _fallback_model and _model_from_odds: the h2h odds of a       *)
(* match, any of the three outcomes missing or priced at 0.  The call      *)
(* hands its expected goals to run_bivariate_poisson and returns from its  *)
(* output.                                                                 *)
(***************************************************************************)
MarketOdds == {0, Unit, 1050, 2 * Unit, 15 * Unit, 30 * Unit}

MarketFunctions == {"_fallback_model", "_model_from_odds"}

NewMarketModel(fn, odds) ==
    [fn |-> fn, odds |-> odds, pc |-> "call", output |-> <<>>]

MarketInputs ==
    market_model \in {NewMarketModel(fn, odds) :
                         fn \in MarketFunctions, odds \in Dicts(MarketOdds)}

FallbackIdle == market_model = [pc |-> "done"]

\* scheduler.py lines 132-139, to the call of run_bivariate_poisson.
FallbackModel ==
    /\ market_model.pc = "call"
    /\ market_model.fn = "_fallback_model"
    /\ market_model' = [market_model EXCEPT !.pc = "model"]
    /\ \E lambdas \in {_fallback_model(market_model.odds)} :
           poisson' = NewPoisson(lambdas.lambda_home, lambdas.lambda_away)
    /\ UNCHANGED <<k_in, k_out, dvb_in, dvb_out, sim_matches, sim_config,
                   simulation, backtest, confidence, dixon_coles,
                   equity_curve, scheduler, team_tracker>>

\* main.py lines 76-85, to the call of run_bivariate_poisson.
ModelFromOdds ==
    /\ market_model.pc = "call"
    /\ market_model.fn = "_model_from_odds"
    /\ market_model' = [market_model EXCEPT !.pc = "model"]
    /\ \E lambdas \in {_model_from_odds(market_model.odds)} :
           poisson' = NewPoisson(lambdas.lambda_home, lambdas.lambda_away)
    /\ UNCHANGED <<k_in, k_out, dvb_in, dvb_out, sim_matches, sim_config,
                   simulation, backtest, confidence, dixon_coles,
                   equity_curve, scheduler, team_tracker>>

\* scheduler.py line 139 returns the PoissonOutput, main.py lines 86-95 a
\* dict of seven of its fields.
MarketReturn ==
    /\ market_model.pc = "model"
    /\ poisson.pc = "done"
    /\ market_model' = [market_model EXCEPT
           !.pc = "done",
           !.output = IF market_model.fn = "_fallback_model"
                      THEN poisson.output
                      ELSE [key \in {"home_win", "draw", "away_win", "over_25",
                                     "under_25", "expected_home_goals",
                                     "expected_away_goals"} |->
                               poisson.output[key]]]
    /\ UNCHANGED <<k_in, k_out, dvb_in, dvb_out, sim_matches, sim_config,
                   simulation, backtest, confidence, poisson, dixon_coles,
                   equity_curve, scheduler, team_tracker>>

(***************************************************************************)
(* Inputs: _simulate on rows where the odds of a market are missing (None, *)
(* here 0) under configs that name some of the markets.                    *)
(***************************************************************************)
MaxGatedMatches == 2

\* The odds columns a row of the CSV may lack.
MissingOdds ==
    {{}, {"odds_d"}, {"odds_under25"}, {"odds_btts_yes", "odds_btts_no"}}

Unpriced(match, columns) ==
    [field \in DOMAIN match |->
        IF field \in columns THEN 0 ELSE match[field]]

GatedRecords ==
    {Unpriced(MatchRecord(d, "E0", f[1], f[2], <<2, 1>>), columns) :
        d \in Dates, f \in {<<"Ajax", "Benfica">>, <<"Celta", "Dortmund">>},
        columns \in MissingOdds}

ConfigMarkets ==
    {<<"h2h", "totals", "btts">>, <<"totals">>, <<"h2h", "btts">>, <<>>}

GatingInputs ==
    /\ sim_matches \in
           UNION {MatchLists(n, GatedRecords) : n \in 0 .. MaxGatedMatches}
    /\ sim_config \in {[DefaultConfig EXCEPT !.min_matches = m,
                                         !.markets = markets] :
                      m \in {0, 1}, markets \in ConfigMarkets}
    /\ simulation = NewSimulation

(***************************************************************************)
(* Inputs and actions: _equity_curve, one pass of its loop per step.       *)
(***************************************************************************)
MaxBets == 3

EquityProbs == {300, 900}

EquityOdds == {1500, 2 * Unit}

EquityBets ==
    {[date |-> Date(2023, 9), league |-> "EPL", market |-> "totals",
      outcome |-> "over", probability |-> p, odds |-> o,
      edge |-> Mul(o, p) - Unit, won |-> w, clv |-> 0] :
        p \in EquityProbs, o \in EquityOdds, w \in BOOLEAN}

BetLists == UNION {[1 .. n -> EquityBets] : n \in 0 .. MaxBets}

\* flat_stake_pct and kelly_cap as fractions of the bankroll, 1% and 15%
\* being the defaults of BacktestConfig.
EquityStakes ==
    {[strategy |-> "flat", flat_stake_pct |-> pct, kelly_cap |-> 150] :
        pct \in {0, 10, 990, Unit}}
    \cup {[strategy |-> st, flat_stake_pct |-> 10, kelly_cap |-> cap] :
        st \in {"kelly", "quarter"}, cap \in {0, 150, 990}}

NewEquityCurve(bets, config, strategy) ==
    [bets |-> bets, config |-> config, strategy |-> strategy,
     acc |-> EquityStart(config), next |-> 1, pc |-> "loop"]

EquityInputs ==
    equity_curve \in
        {NewEquityCurve(bets,
                        [DefaultConfig EXCEPT
                            !.flat_stake_pct = stake.flat_stake_pct,
                            !.kelly_cap = stake.kelly_cap],
                        stake.strategy) :
            bets \in BetLists, stake \in EquityStakes}

EquityIdle == equity_curve = [pc |-> "done"]

\* Lines 464-482, one bet.
EquityStep ==
    /\ equity_curve.pc = "loop"
    /\ equity_curve.next <= Len(equity_curve.bets)
    /\ equity_curve' =
           [equity_curve EXCEPT
               !.acc = EquityBet(@, equity_curve.bets[equity_curve.next],
                                 equity_curve.config, equity_curve.strategy),
               !.next = @ + 1]
    /\ UNCHANGED <<k_in, k_out, dvb_in, dvb_out, sim_matches, sim_config,
                   simulation, backtest, confidence, poisson, dixon_coles,
                   market_model, scheduler, team_tracker>>

\* Lines 484-512.
EquityReturn ==
    /\ equity_curve.pc = "loop"
    /\ equity_curve.next > Len(equity_curve.bets)
    /\ equity_curve' =
           [bets |-> equity_curve.bets, config |-> equity_curve.config,
            strategy |-> equity_curve.strategy, acc |-> equity_curve.acc,
            next |-> equity_curve.next, pc |-> "returned",
            equity |-> equity_curve.acc.equity,
            metrics |-> EquityMetrics(equity_curve.acc)]
    /\ UNCHANGED <<k_in, k_out, dvb_in, dvb_out, sim_matches, sim_config,
                   simulation, backtest, confidence, poisson, dixon_coles,
                   market_model, scheduler, team_tracker>>

(***************************************************************************)
(* Inputs and actions: a TeamTracker, its update and form methods.         *)
(***************************************************************************)
MaxUpdates == 6

\* The arguments of an update call: a home win or a draw, seen by the home
\* or by the away team.
UpdateCalls ==
    {[home_goals |-> score[1], away_goals |-> score[2], is_home |-> is_home] :
        score \in {<<2, 0>>, <<1, 1>>}, is_home \in BOOLEAN}

NewTracker(calls) ==
    [calls |-> calls, done |-> 0, t |-> NewTeamTracker, form |-> <<>>]

TrackerInputs ==
    team_tracker \in
        {NewTracker(calls) :
            calls \in UNION {[1 .. n -> UpdateCalls] : n \in 0 .. MaxUpdates}}

TrackerIdle == team_tracker = [done |-> 0, calls |-> <<>>]

\* TeamTracker.update, lines 210-223.
TrackerUpdate ==
    /\ team_tracker.done < Len(team_tracker.calls)
    /\ LET call == team_tracker.calls[team_tracker.done + 1]
       IN  team_tracker' =
               [team_tracker EXCEPT
                   !.t = TeamTrackerUpdate(@, call.home_goals, call.away_goals,
                                           call.is_home),
                   !.done = @ + 1,
                   !.form = <<>>]
    /\ UNCHANGED <<k_in, k_out, dvb_in, dvb_out, sim_matches, sim_config,
                   simulation, backtest, confidence, poisson, dixon_coles,
                   market_model, equity_curve, scheduler>>

\* TeamTracker.form, lines 225-228; form holds the value returned.
TrackerForm ==
    /\ "t" \in DOMAIN team_tracker
    /\ team_tracker.form = <<>>
    /\ team_tracker' =
           [team_tracker EXCEPT !.form = <<TeamTrackerForm(team_tracker.t)>>]
    /\ UNCHANGED <<k_in, k_out, dvb_in, dvb_out, sim_matches, sim_config,
                   simulation, backtest, confidence, poisson, dixon_coles,
                   market_model, equity_curve, scheduler>>

(***************************************************************************)
(* scheduler.py: generate_signals, run by the cron job of create_scheduler *)
(* and by the handler of /api/refresh, each call with a session of its     *)
(* own (autoflush off): what a call adds stays in its session until its    *)
(* commit, and its queries read the committed table.  Of a Signal the      *)
(* match, the outcome, the edge and the run that made it are carried.      *)
(***************************************************************************)
\* engine/team_names.py, one entry of the dictionary.
ODDS_TO_UNDERSTAT == [odds_name \in {"Leeds United"} |-> "Leeds"]

\* The names of the model have no close match among one another: the fuzzy
\* step of lines 129-132 finds none.
normalize_team_name(odds_name, known_understat) ==
    IF odds_name \in DOMAIN ODDS_TO_UNDERSTAT
    THEN ODDS_TO_UNDERSTAT[odds_name]
    ELSE odds_name

\* all_stats as the dict stats_by_name.
_compute_league_averages(all_stats) ==
    [league \in {all_stats[t].league : t \in DOMAIN all_stats} |->
        LET home == {t \in DOMAIN all_stats : /\ all_stats[t].league = league
                                              /\ all_stats[t].matches_home > 0}
            away == {t \in DOMAIN all_stats : /\ all_stats[t].league = league
                                              /\ all_stats[t].matches_away > 0}
        IN  [avg_xg_home |->
                 IF home # {}
                 THEN SumOver([t \in home |-> all_stats[t].xg_att_home], home)
                        \div Cardinality(home)
                 ELSE 1400,
             avg_xg_away |->
                 IF away # {}
                 THEN SumOver([t \in away |-> all_stats[t].xg_att_away], away)
                        \div Cardinality(away)
                 ELSE 1100]]

\* Lines 186-212: the model output of a match with h2h odds, or the
\* exception raised for it.
ModelOutput(match, stats_by_name) ==
    LET known_names == DOMAIN stats_by_name
        home_us == normalize_team_name(match.home_team, known_names)
        away_us == normalize_team_name(match.away_team, known_names)
    IN  IF home_us \in known_names /\ away_us \in known_names
        THEN LET home_stats == stats_by_name[home_us]
                 away_stats == stats_by_name[away_us]
                 lg_avg == Get(_compute_league_averages(stats_by_name),
                               home_stats.league,
                               [avg_xg_home |-> 1400, avg_xg_away |-> 1100])
                 result == run_dixon_coles(home_stats.xg_att_home,
                                           away_stats.xga_def_away,
                                           away_stats.xg_att_away,
                                           home_stats.xga_def_home, lg_avg)
             IN  [model |-> "run_dixon_coles", raised |-> result.raised,
                  output |-> result.output]
        ELSE LET lambdas == _fallback_model(match.odds)
             IN  [model |-> "_fallback_model", raised |-> "",
                  output |-> run_bivariate_poisson(lambdas.lambda_home,
                                                   lambdas.lambda_away)]

\* Lines 214-240: the Signals added for the value bets of a match, those
\* left out for which the table holds a Signal of the match and outcome.
NewSignals(match, model_output, signals, run) ==
    LET model_probs == [home |-> model_output.home_win,
                        draw |-> model_output.draw,
                        away |-> model_output.away_win]
        value_bets == detect_value_bets(model_probs, match.odds, 30)
        Missing(bet) == ~\E existing \in signals :
                            /\ existing.match_id = match.id
                            /\ existing.outcome = bet.outcome
        added == SelectSeq(value_bets, Missing)
    IN  [i \in 1 .. Len(added) |->
            [match_id |-> match.id, outcome |-> added[i].outcome,
             edge |-> added[i].edge, created_at |-> run]]

NewJob == [pc |-> "idle", run |-> 0, next |-> 1, pending |-> <<>>,
           models |-> <<>>, last |-> ""]

Jobs == {"cron", "refresh"}

MaxRuns == 2

MaxDbMatches == 2

H2hOdds == [home |-> 2 * Unit, draw |-> 3500, away |-> 4500]

\* The rows of the matches table, with the h2h odds of each as a dict (no
\* Odds row: the empty dict).
DbMatches ==
    {<<>>} \cup
    {[i \in 1 .. n |->
        [id |-> i,
         home_team |-> IF i % 2 = 1 THEN "Leeds United" ELSE "Arsenal",
         away_team |-> IF i % 2 = 1 THEN "Arsenal" ELSE "Leeds United",
         odds |-> priced[i]]] :
        n \in 1 .. MaxDbMatches, priced \in [1 .. MaxDbMatches -> {<<>>, H2hOdds}]}

\* The rows of team_stats, by team.
DbTeamStats ==
    {[t \in rated |->
        [team |-> t, league |-> "EPL", xg_att_home |-> 1500,
         xg_att_away |-> 1200, xga_def_home |-> 1100, xga_def_away |-> 1400,
         matches_home |-> 10, matches_away |-> 10]] :
        rated \in SUBSET {"Leeds", "Arsenal"}}

SchedulerInputs ==
    scheduler \in
        {[matches |-> matches, team_stats |-> team_stats, signals |-> {},
          next_id |-> 1, runs |-> 0, jobs |-> [job \in Jobs |-> NewJob]] :
            matches \in DbMatches, team_stats \in DbTeamStats}

\* Lines 160-176: the call, its session, the delete of every Signal and the
\* commit of it.
GenerateDelete(job) ==
    /\ scheduler.jobs[job].pc = "idle"
    /\ scheduler.runs < MaxRuns
    /\ scheduler' =
           [scheduler EXCEPT
               !.signals = {},
               !.runs = @ + 1,
               !.jobs[job] = [NewJob EXCEPT !.pc = "matches",
                                            !.run = scheduler.runs + 1]]
    /\ UNCHANGED <<k_in, k_out, dvb_in, dvb_out, sim_matches, sim_config,
                   simulation, backtest, confidence, poisson, dixon_coles,
                   market_model, equity_curve, team_tracker>>

\* Lines 177-240, one match; an exception ends the call, and the close of
\* line 244 drops what the session holds.
GenerateMatch(job) ==
    /\ scheduler.jobs[job].pc = "matches"
    /\ scheduler.jobs[job].next <= Len(scheduler.matches)
    /\ LET this == scheduler.jobs[job]
           match == scheduler.matches[this.next]
       IN  IF match.odds = <<>>
           THEN scheduler' = [scheduler EXCEPT !.jobs[job].next = @ + 1]
           ELSE \E m \in {ModelOutput(match, scheduler.team_stats)} :
                  scheduler' =
                    IF m.raised # ""
                    THEN [scheduler EXCEPT
                             !.jobs[job] = [this EXCEPT !.pc = "idle",
                                                        !.pending = <<>>,
                                                        !.last = m.raised]]
                    ELSE [scheduler EXCEPT
                             !.jobs[job] =
                                 [this EXCEPT
                                     !.next = @ + 1,
                                     !.models = Append(@, [match_id |-> match.id,
                                                           model |-> m.model]),
                                     !.pending = @ \o NewSignals(match, m.output,
                                                                 scheduler.signals,
                                                                 this.run)]]
    /\ UNCHANGED <<k_in, k_out, dvb_in, dvb_out, sim_matches, sim_config,
                   simulation, backtest, confidence, poisson, dixon_coles,
                   market_model, equity_curve, team_tracker>>

\* Lines 241-244: the commit writes what the session holds, each row under
\* the next id of the table.
GenerateCommit(job) ==
    /\ scheduler.jobs[job].pc = "matches"
    /\ scheduler.jobs[job].next > Len(scheduler.matches)
    /\ LET pending == scheduler.jobs[job].pending
       IN  scheduler' =
               [scheduler EXCEPT
                   !.signals = @ \cup
                       {[id |-> scheduler.next_id + i - 1,
                         match_id |-> pending[i].match_id,
                         outcome |-> pending[i].outcome,
                         edge |-> pending[i].edge,
                         created_at |-> pending[i].created_at] :
                           i \in 1 .. Len(pending)},
                   !.next_id = @ + Len(pending),
                   !.jobs[job] = [@ EXCEPT !.pc = "idle", !.pending = <<>>,
                                           !.last = "returned"]]
    /\ UNCHANGED <<k_in, k_out, dvb_in, dvb_out, sim_matches, sim_config,
                   simulation, backtest, confidence, poisson, dixon_coles,
                   market_model, equity_curve, team_tracker>>

SchedulerIdle == scheduler = [pc |-> "done"]

ModelsIdle == ConfidenceIdle /\ PoissonIdle /\ DixonColesIdle /\ FallbackIdle

JobsIdle == EquityIdle /\ SchedulerIdle /\ TrackerIdle

InitKelly == KellyInputs /\ DetectIdle /\ SimulateIdle /\ BacktestIdle /\ ModelsIdle
    /\ JobsIdle

NextKelly == KellyCall

SpecKelly == InitKelly /\ [][NextKelly]_vars

InitDetect == DetectInputs /\ KellyIdle /\ SimulateIdle /\ BacktestIdle /\ ModelsIdle
    /\ JobsIdle

NextDetect == DetectCall

SpecDetect == InitDetect /\ [][NextDetect]_vars

Init == SimulateInputs /\ KellyIdle /\ DetectIdle /\ BacktestIdle /\ ModelsIdle
    /\ JobsIdle

Next == SimulateStep \/ SimulateReturn

Spec == Init /\ [][Next]_vars

\* Both places where value bets are recorded: detect_value_bets and the
\* replay of _simulate (here on the lists of a few fixtures).
SignalsInputs ==
    /\ sim_matches \in UNION {MatchLists(n, BacktestRecords) : n \in 0 .. MaxMatches}
    /\ sim_config \in {[DefaultConfig EXCEPT !.min_matches = m,
                                         !.markets = <<"h2h", "totals", "btts">>] :
                      m \in 0 .. MaxMinMatches}
    /\ simulation = NewSimulation

InitSignals ==
    \/ InitDetect
    \/ SignalsInputs /\ KellyIdle /\ DetectIdle /\ BacktestIdle /\ ModelsIdle
       /\ JobsIdle

NextSignals == DetectCall \/ SimulateStep \/ SimulateReturn

SpecSignals == InitSignals /\ [][NextSignals]_vars

InitBacktest == BacktestInputs /\ KellyIdle /\ DetectIdle /\ ModelsIdle
    /\ JobsIdle

NextBacktest == RunLoad \/ RunGrid \/ RunReport

SpecBacktest == InitBacktest /\ [][NextBacktest]_vars

InitConfidence ==
    /\ ConfidenceInputs /\ PoissonIdle /\ DixonColesIdle /\ FallbackIdle
    /\ KellyIdle /\ DetectIdle /\ SimulateIdle /\ BacktestIdle /\ JobsIdle

NextConfidence == ConfidenceCall

SpecConfidence == InitConfidence /\ [][NextConfidence]_vars

InitPoisson ==
    /\ PoissonInputs /\ ConfidenceIdle /\ DixonColesIdle /\ FallbackIdle
    /\ KellyIdle /\ DetectIdle /\ SimulateIdle /\ BacktestIdle /\ JobsIdle

NextPoisson == PoissonMatrix \/ PoissonReturn

SpecPoisson == InitPoisson /\ [][NextPoisson]_vars

InitDixonColes ==
    /\ DixonColesInputs /\ ConfidenceIdle /\ PoissonIdle /\ FallbackIdle
    /\ KellyIdle /\ DetectIdle /\ SimulateIdle /\ BacktestIdle /\ JobsIdle

NextDixonColes == DixonLambdas \/ DixonMatrix \/ DixonReturn

SpecDixonColes == InitDixonColes /\ [][NextDixonColes]_vars

InitMarket ==
    /\ MarketInputs /\ ConfidenceIdle /\ PoissonIdle /\ DixonColesIdle
    /\ KellyIdle /\ DetectIdle /\ SimulateIdle /\ BacktestIdle /\ JobsIdle

NextMarket ==
    FallbackModel \/ ModelFromOdds \/ PoissonMatrix \/ PoissonReturn \/ MarketReturn

SpecMarket == InitMarket /\ [][NextMarket]_vars

InitEquity ==
    /\ EquityInputs /\ SchedulerIdle /\ TrackerIdle /\ ModelsIdle
    /\ KellyIdle /\ DetectIdle /\ SimulateIdle /\ BacktestIdle

NextEquity == EquityStep \/ EquityReturn

SpecEquity == InitEquity /\ [][NextEquity]_vars

\* run_backtest, its grid search one _simulate step at a time.
NextTrials == RunLoad \/ TrialCall \/ TrialStep \/ TrialReturn \/ RunReport

SpecTrials == InitBacktest /\ [][NextTrials]_vars

InitScheduler ==
    /\ SchedulerInputs /\ EquityIdle /\ TrackerIdle /\ ModelsIdle
    /\ KellyIdle /\ DetectIdle /\ SimulateIdle /\ BacktestIdle

NextScheduler ==
    \E job \in Jobs :
        GenerateDelete(job) \/ GenerateMatch(job) \/ GenerateCommit(job)

SpecScheduler == InitScheduler /\ [][NextScheduler]_vars

InitGating ==
    /\ GatingInputs /\ KellyIdle /\ DetectIdle /\ BacktestIdle /\ ModelsIdle
    /\ JobsIdle

NextGating == SimulateStep \/ SimulateReturn

SpecGating == InitGating /\ [][NextGating]_vars

InitTracker ==
    /\ TrackerInputs /\ EquityIdle /\ SchedulerIdle /\ ModelsIdle
    /\ KellyIdle /\ DetectIdle /\ SimulateIdle /\ BacktestIdle

NextTracker == TrackerUpdate \/ TrackerForm

SpecTracker == InitTracker /\ [][NextTracker]_vars

(***************************************************************************)
(* Claims about _simulate                                                  *)
(***************************************************************************)
RECURSIVE SumGoals(_, _, _)
SumGoals(ms, idxs, home_side) ==
    IF idxs = {} THEN 0
    ELSE LET j == CHOOSE x \in idxs : TRUE
         IN  (IF home_side THEN ms[j].home_goals ELSE ms[j].away_goals)
             + SumGoals(ms, idxs \ {j}, home_side)

\* The rows before row i in which its home team played at home, its away
\* team played away, and the rows of its league.
PriorHome(ms, i) == {j \in 1 .. i - 1 : ms[j].home = ms[i].home}

PriorAway(ms, i) == {j \in 1 .. i - 1 : ms[j].away = ms[i].away}

PriorLeague(ms, i) == {j \in 1 .. i - 1 : ms[j].league = ms[i].league}

\* What decides the bets and predictions of a match besides its own row and
\* the config: whether it passed the gate and the expected goals computed.
SignalOf(sg) == <<sg.gate, sg.lambda_home, sg.lambda_away>>

\* The rearrangements of ms that are again in ascending date order (all of
\* them lists load_matches can return for the same rows).
SortedRearrangements(ms) ==
    LET n == Len(ms)
        perms == {p \in [1 .. n -> 1 .. n] : \A i, j \in 1 .. n : i # j => p[i] # p[j]}
    IN  {q \in {[i \in 1 .. n |-> ms[p[i]]] : p \in perms} :
            \A i, j \in 1 .. n : i < j => q[i].date <= q[j].date}

\* C1: for every match N, what _simulate computes for N (the signal its bets
\* and predictions derive from) is the same when the matches dated on or
\* after date(N) are put in another order.
C1_NoLookahead ==
    simulation.status # "running" =>
        \A q \in SortedRearrangements(sim_matches) :
            LET other == _simulate(q, sim_config)
            IN  \A i \in 1 .. Len(simulation.signals),
                   j \in 1 .. Len(other.signals) :
                    (/\ q[j] = sim_matches[i]
                     /\ \A e \in 1 .. Len(q) :
                            q[e].date < q[j].date => q[e] = sim_matches[e])
                    => SignalOf(other.signals[j]) = SignalOf(simulation.signals[i])

\* C2: the trackers read for the signal of a match hold the results of all
\* the matches replayed before it and not its own: the match counts and goal
\* totals the gate and _expected_goals saw are those of the earlier rows.
C2_UpdateAfterSignal ==
    \A i \in 1 .. Len(simulation.signals) :
        LET sg == simulation.signals[i]
            ms == sim_matches
        IN  /\ sg.home.home_matches = Cardinality(PriorHome(ms, i))
            /\ sg.home.home_for = SumGoals(ms, PriorHome(ms, i), TRUE)
            /\ sg.home.home_against = SumGoals(ms, PriorHome(ms, i), FALSE)
            /\ sg.away.away_matches = Cardinality(PriorAway(ms, i))
            /\ sg.away.away_for = SumGoals(ms, PriorAway(ms, i), FALSE)
            /\ sg.away.away_against = SumGoals(ms, PriorAway(ms, i), TRUE)
            /\ sg.league.matches = Cardinality(PriorLeague(ms, i))
            /\ sg.league.home_goals = SumGoals(ms, PriorLeague(ms, i), TRUE)
            /\ sg.league.away_goals = SumGoals(ms, PriorLeague(ms, i), FALSE)

\* The second match of a replay was read with the result of the first, in
\* which its home team played at home and scored, in the trackers.
C2_Witness ==
    /\ Len(simulation.signals) >= 2
    /\ simulation.signals[2].home.home_matches = 1
    /\ simulation.signals[2].home.home_for = 1
    /\ simulation.signals[2].league.matches = 1

\* The next match of the loop is below min_matches for its home team or for
\* its away team, counted on the rows before it.
BelowMinMatches ==
    /\ simulation.status = "running"
    /\ simulation.next <= Len(sim_matches)
    /\ \/ Cardinality(PriorHome(sim_matches, simulation.next)) < sim_config.min_matches
       \/ Cardinality(PriorAway(sim_matches, simulation.next)) < sim_config.min_matches

\* C3: replaying a match below min_matches records no bet and no prediction
\* and applies its result to both team trackers and to the league tracker.
C3_SkipStillUpdates ==
    [][BelowMinMatches =>
        LET m == sim_matches[simulation.next]
            home0 == Get(simulation.teams, m.home, NewTeamTracker)
            away0 == Get(simulation.teams, m.away, NewTeamTracker)
            league0 == Get(simulation.league_tracker, m.league, NewLeagueTracker)
            home1 == simulation'.teams[m.home]
            away1 == simulation'.teams[m.away]
            league1 == simulation'.league_tracker[m.league]
        IN  /\ simulation'.bets = simulation.bets
            /\ simulation'.predictions = simulation.predictions
            /\ simulation'.status = "running"
            /\ home1.home_matches = home0.home_matches + 1
            /\ home1.home_for = home0.home_for + m.home_goals
            /\ home1.home_against = home0.home_against + m.away_goals
            /\ home1.recent_points[1] = Points(m.home_goals, m.away_goals)
            /\ away1.away_matches = away0.away_matches + 1
            /\ away1.away_for = away0.away_for + m.away_goals
            /\ away1.away_against = away0.away_against + m.home_goals
            /\ away1.recent_points[1] = Points(m.away_goals, m.home_goals)
            /\ league1.matches = league0.matches + 1
            /\ league1.home_goals = league0.home_goals + m.home_goals
            /\ league1.away_goals = league0.away_goals + m.away_goals
      ]_vars

\* A match whose away team had no away match yet (its home team had one) was
\* skipped under min_matches = 1 and is in the trackers.
C3_Witness ==
    /\ sim_config.min_matches = 1
    /\ Len(simulation.signals) = 2
    /\ simulation.next = 3
    /\ ~simulation.signals[2].gate
    /\ simulation.signals[2].home.home_matches = 1
    /\ simulation.teams[sim_matches[2].home].home_matches = 2
    /\ simulation.league_tracker[sim_matches[2].league].matches = 2
    /\ simulation.bets = <<>>

(***************************************************************************)
(* Claims about run_backtest                                               *)
(***************************************************************************)
Qualified(trial) == trial.bets >= MIN_BETS

\* C4: run_backtest gives back an error dict, not a report, when the match
\* list is empty and when no combination of the grid placed at least 30
\* bets on the training split.
C4_ExplicitNoResult ==
    (/\ backtest.pc = "done"
     /\ backtest.result.kind # "raised"
     /\ \/ sim_matches = <<>>
        \/ \A i \in 1 .. Len(backtest.trials) : ~Qualified(backtest.trials[i]))
    => backtest.result.kind = "error"

\* C5: the parameters a report names as best are those of a grid combination
\* that placed at least 30 bets on the training split, and no combination
\* with at least 30 bets has a higher training roi.
C5_GridSelection ==
    backtest.result.kind = "report" =>
        \E i \in 1 .. Len(backtest.trials) :
            /\ backtest.trials[i].params = backtest.result.report.summary.best_params
            /\ Qualified(backtest.trials[i])
            /\ \A j \in 1 .. Len(backtest.trials) :
                   Qualified(backtest.trials[j])
                   => backtest.trials[j].roi <= backtest.trials[i].roi

\* C6: for every (k, blend, hfa) and threshold t of the grid, _simulate run
\* at edge_threshold 0 and _simulate run at edge_threshold t both give a bet
\* list, and the first one filtered by edge > t is the second one.
C6_FilterEquivalence ==
    simulation.status # "running" =>
        \A ki \in 1 .. Len(grid_k), bi \in 1 .. Len(grid_blend),
           hi \in 1 .. Len(grid_hfa), ei \in 1 .. Len(grid_edge) :
            LET Kept(b) == b.edge > grid_edge[ei]
                base == _simulate(sim_matches,
                            TrialConfig(sim_config,
                                BestParams(grid_k[ki], grid_blend[bi],
                                           grid_hfa[hi], 0)))
                direct == _simulate(sim_matches,
                              TrialConfig(sim_config,
                                  BestParams(grid_k[ki], grid_blend[bi],
                                             grid_hfa[hi], grid_edge[ei])))
            IN  /\ base.status = "returned"
                /\ direct.status = "returned"
                /\ SelectSeq(base.bets, Kept) = direct.bets

(***************************************************************************)
(* Claims about the value bets recorded                                    *)
(***************************************************************************)
Range(q) == {q[i] : i \in 1 .. Len(q)}

\* The edge detect_value_bets works out for an outcome (lines 34-37).
BlendedEdge(outcome, model_probs, market_odds) ==
    LET blended == Mul(BLEND_MODEL, model_probs[outcome])
                     + Mul(BLEND_MARKET,
                           Get(ImpliedProbs(market_odds), outcome, 0))
    IN  Min(Mul(market_odds[outcome], blended) - Unit, EDGE_CAP)

\* Model probabilities a gated match can be given, the same for every key.
BlockProbs ==
    {[key \in {"home", "draw", "away", "over_25", "under_25",
               "btts_yes", "btts_no"} |-> p] : p \in DetectProbs}

\* The BetRecords lines 366-444 append for a match under model_probs.
BlockBets(match, config, model_probs) ==
    MarketBets(match, config, "h2h", 1, model_probs, _match_outcomes(match))
      \o MarketBets(match, config, "totals", 1, model_probs, _match_outcomes(match))
      \o MarketBets(match, config, "btts", 1, model_probs, _match_outcomes(match))

\* C9: no value bet detect_value_bets returns and no BetRecord of _simulate
\* has odds above 15.0: neither in the bets of a replay nor among those its
\* bet-recording code gives for any row under any model probabilities.
C9_OddsCeiling ==
    /\ \A bet \in Range(dvb_out.value_bets) : bet.odds <= MAX_ODDS
    /\ \A bet \in Range(simulation.bets) : bet.odds <= MAX_ODDS
    /\ simulation.status = "running" /\ simulation.next <= Len(sim_matches) =>
         \A model_probs \in BlockProbs :
             \A bet \in Range(BlockBets(sim_matches[simulation.next],
                                         sim_config, model_probs)) :
                 bet.odds <= MAX_ODDS

\* detect_value_bets returned bets, and none for an outcome priced above
\* 15.0 whose edge is above the threshold.
C9_Witness ==
    /\ dvb_out.returned
    /\ dvb_out.value_bets # <<>>
    /\ \E outcome \in DOMAIN dvb_in.model_probs \cap DOMAIN dvb_in.market_odds :
           /\ dvb_in.market_odds[outcome] > MAX_ODDS
           /\ BlendedEdge(outcome, dvb_in.model_probs, dvb_in.market_odds)
                > dvb_in.threshold
           /\ \A bet \in Range(dvb_out.value_bets) : bet.outcome # outcome

\* C10: every value bet detect_value_bets returns has an edge strictly above
\* the threshold it was called with, and every BetRecord of _simulate has an
\* edge strictly above config.edge_threshold; an outcome whose edge equals
\* the threshold is not in the result.
C10_StrictThreshold ==
    /\ \A bet \in Range(dvb_out.value_bets) : bet.edge > dvb_in.threshold
    /\ dvb_out.returned =>
         \A outcome \in DOMAIN dvb_in.model_probs \cap DOMAIN dvb_in.market_odds :
             BlendedEdge(outcome, dvb_in.model_probs, dvb_in.market_odds)
               = dvb_in.threshold
             => \A bet \in Range(dvb_out.value_bets) : bet.outcome # outcome
    /\ \A bet \in Range(simulation.bets) : bet.edge > sim_config.edge_threshold
    /\ simulation.status = "running" /\ simulation.next <= Len(sim_matches) =>
         \A model_probs \in BlockProbs :
             \A bet \in Range(BlockBets(sim_matches[simulation.next],
                                         sim_config, model_probs)) :
                 bet.edge > sim_config.edge_threshold

\* detect_value_bets returned bets, and none for an outcome within the odds
\* ceiling whose edge is exactly the threshold.
C10_Witness ==
    /\ dvb_out.returned
    /\ dvb_out.value_bets # <<>>
    /\ \E outcome \in DOMAIN dvb_in.model_probs \cap DOMAIN dvb_in.market_odds :
           /\ dvb_in.market_odds[outcome] > 0
           /\ dvb_in.market_odds[outcome] <= MAX_ODDS
           /\ BlendedEdge(outcome, dvb_in.model_probs, dvb_in.market_odds)
                = dvb_in.threshold
           /\ \A bet \in Range(dvb_out.value_bets) : bet.outcome # outcome

\* The probability detect_value_bets blends for an outcome (lines 34-35).
BlendedProb(outcome, model_probs, market_odds) ==
    Mul(BLEND_MODEL, model_probs[outcome])
      + Mul(BLEND_MARKET, Get(ImpliedProbs(market_odds), outcome, 0))

\* The outcomes of a call that pass line 32: priced, and at most at 15.0.
Priced(model_probs, market_odds) ==
    {outcome \in DOMAIN model_probs \cap DOMAIN market_odds :
        market_odds[outcome] > 0 /\ market_odds[outcome] <= MAX_ODDS}

\* C11: an outcome of the model probabilities that the market odds do not
\* hold is skipped without error: the call returns, no value bet is for an
\* outcome outside the market odds, every bet carries the odds the market
\* gives its outcome, and every other outcome is still evaluated (it is in
\* the result when it is priced within the ceiling with an edge above the
\* threshold).
C11_AbsentOutcomeSkipped ==
    dvb_out.returned =>
        /\ \A bet \in Range(dvb_out.value_bets) :
               /\ bet.outcome \in DOMAIN dvb_in.market_odds
               /\ bet.odds = dvb_in.market_odds[bet.outcome]
        /\ \A outcome \in Priced(dvb_in.model_probs, dvb_in.market_odds) :
               BlendedEdge(outcome, dvb_in.model_probs, dvb_in.market_odds)
                 > dvb_in.threshold
               => \E bet \in Range(dvb_out.value_bets) : bet.outcome = outcome

\* detect_value_bets returned bets for a call whose model probabilities hold
\* an outcome the market odds do not.
C11_Witness ==
    /\ dvb_out.returned
    /\ dvb_out.value_bets # <<>>
    /\ DOMAIN dvb_in.model_probs \ DOMAIN dvb_in.market_odds # {}

\* Scenario C as a call of detect_value_bets(model_probs, market_odds,
\* threshold): the function has no blend weight parameter.
ScenarioC ==
    [model_probs |-> [outcome \in {"home"} |-> Unit \div 2],
     market_odds |-> [outcome \in {"home"} |-> 2 * Unit],
     threshold |-> 30]

\* C12: on Scenario C (home 0.50 against home odds 2.00 alone, threshold
\* 0.03) detect_value_bets returns no value bet.
C12_ScenarioC ==
    dvb_out.returned /\ dvb_in = ScenarioC => dvb_out.value_bets = <<>>

\* C13: every value bet detect_value_bets returns carries the blended
\* probability 0.65 * model + 0.35 * market-implied as its probability, and
\* its kelly field is kelly_fraction of that blended probability and the
\* odds of the outcome, not of the raw model probability.
C13_BlendedProbability ==
    \A bet \in Range(dvb_out.value_bets) :
        /\ bet.probability
             = BlendedProb(bet.outcome, dvb_in.model_probs, dvb_in.market_odds)
        /\ bet.kelly
             = kelly_fraction(BlendedProb(bet.outcome, dvb_in.model_probs,
                                          dvb_in.market_odds),
                              dvb_in.market_odds[bet.outcome],
                              QUARTER, DEFAULT_CAP)

\* A value bet whose blended probability is not the model probability and
\* whose kelly field is not the one the raw model probability would give.
C13_Witness ==
    /\ dvb_out.returned
    /\ \E bet \in Range(dvb_out.value_bets) :
           /\ bet.probability # dvb_in.model_probs[bet.outcome]
           /\ bet.kelly # kelly_fraction(dvb_in.model_probs[bet.outcome],
                                         bet.odds, QUARTER, DEFAULT_CAP)

\* C14: the edge of every value bet detect_value_bets returns is at most
\* 0.15 and is min(odds * blended probability - 1, 0.15); the threshold test
\* is on the capped edge: an outcome priced within the odds ceiling is in the
\* result exactly when its capped edge is above the threshold.
C14_EdgeCap ==
    dvb_out.returned =>
        /\ \A bet \in Range(dvb_out.value_bets) :
               /\ bet.edge <= EDGE_CAP
               /\ bet.edge = Min(Mul(bet.odds, bet.probability) - Unit, EDGE_CAP)
        /\ \A outcome \in Priced(dvb_in.model_probs, dvb_in.market_odds) :
               (\E bet \in Range(dvb_out.value_bets) : bet.outcome = outcome)
               <=> BlendedEdge(outcome, dvb_in.model_probs, dvb_in.market_odds)
                     > dvb_in.threshold

\* A value bet whose uncapped edge is above 0.15 and whose edge is 0.15.
C14_Witness ==
    /\ dvb_out.returned
    /\ \E bet \in Range(dvb_out.value_bets) :
           /\ Mul(bet.odds, bet.probability) - Unit > EDGE_CAP
           /\ bet.edge = EDGE_CAP


Edge(probability, odds) == Mul(odds, probability) - Unit

\* C7: kelly_fraction returns 0.0 whenever odds <= 1.0 or probability <= 0.0,
\* and its result is never negative and never above cap.
C7_KellyRange ==
    k_out.returned =>
        /\ (k_in.a.odds <= Unit \/ k_in.a.probability <= 0) => k_out.a = 0
        /\ k_out.a >= 0
        /\ k_out.a <= k_in.cap

\* A call that was capped (positive edge, stake above cap) and a call with
\* odds <= 1.0 have both returned.
C7_Witness ==
    /\ k_out.returned
    /\ k_in.a.odds > Unit /\ k_in.a.probability > 0
    /\ k_in.cap > 0 /\ k_out.a = k_in.cap
    /\ k_in.b.odds <= Unit /\ k_out.b = 0

\* C8 as stated: of any two (p, odds) inputs the one with the larger edge
\* odds*p - 1 never gets the smaller stake.
C8_MonotoneInEdge ==
    k_out.returned =>
        (Edge(k_in.a.probability, k_in.a.odds)
            > Edge(k_in.b.probability, k_in.b.odds)
         => k_out.a >= k_out.b)

\* C8 amended: at the same odds, the input with the larger edge (that is,
\* the larger probability) never gets the smaller stake.
C8_MonotoneAtSameOdds ==
    (k_out.returned /\ k_in.a.odds = k_in.b.odds) =>
        (Edge(k_in.a.probability, k_in.a.odds)
            > Edge(k_in.b.probability, k_in.b.odds)
         => k_out.a >= k_out.b)

\* Two inputs at the same odds with different edges got different stakes.
C8_Witness ==
    /\ k_out.returned
    /\ k_in.a.odds = k_in.b.odds
    /\ Edge(k_in.a.probability, k_in.a.odds)
           > Edge(k_in.b.probability, k_in.b.odds)
    /\ k_out.a > k_out.b
    /\ k_out.b > 0

(***************************************************************************)
(* Claims about compute_confidence                                         *)
(***************************************************************************)
\* The call of main.py lines 147-153 with an edge of 0.10:
\* (0.10, 0.7, 0.6, 0.65, 0.5).
MainCall ==
    [edge |-> 1000, convergence |-> 7000, volume |-> 6000, stability |-> 6500,
     inefficiency |-> 5000]

\* What the claim gives for the arguments: 100 * (0.30 edge + 0.25
\* convergence + 0.20 volume + 0.15 stability + 0.10 inefficiency) clamped
\* to [0, 100], in millionths of a hundred points.
ClampedScore(args) ==
    Max(0, Min(30 * args.edge + 25 * args.convergence + 20 * args.volume
                 + 15 * args.stability + 10 * args.inefficiency,
               1000 * 1000))

\* C15: the score compute_confidence returns is the weighted sum with
\* weights 0.30 / 0.25 / 0.20 / 0.15 / 0.10, times 100, clamped to [0, 100]
\* and rounded to two decimals (a nearest hundredth of the clamped value); it
\* is in [0, 100] for every input, and it is 47.25 for
\* (0.10, 0.7, 0.6, 0.65, 0.5).
C15_Confidence ==
    confidence.returned =>
        /\ confidence.score >= 0
        /\ confidence.score <= 100 * 100
        /\ 100 * confidence.score - ClampedScore(confidence.args) <= 50
        /\ ClampedScore(confidence.args) - 100 * confidence.score <= 50
        /\ confidence.args = MainCall => confidence.score = 4725

\* compute_confidence returned 100 for signals whose weighted sum is above 1,
\* with a signal outside [0, 1] among them.
C15_Witness ==
    /\ confidence.returned
    /\ confidence.args.edge > CONF_UNIT
    /\ Score(confidence.args.edge, confidence.args.convergence,
             confidence.args.volume, confidence.args.stability,
             confidence.args.inefficiency) > 100 * CONF_UNIT
    /\ confidence.score = 100 * 100

(***************************************************************************)
(* Claims about the scoreline model                                        *)
(***************************************************************************)
\* The sum of the entries of a score matrix over a set of cells.
CellSum(score_matrix, cells) ==
    SumCells(score_matrix.matrix, cells, score_matrix.max_goals, 0)

\* The cells of a home win, a draw, an away win.
Classes(max_goals) ==
    <<{c \in Grid(max_goals) : c[1] > c[2]},
      {c \in Grid(max_goals) : c[1] = c[2]},
      {c \in Grid(max_goals) : c[1] < c[2]}>>

\* C16: the entries of the score matrix sum to 1 after normalization (here
\* to within the truncation of the division, less than one thousandth per
\* cell); every cell is in exactly one of home win (i > j), draw (i = j) and
\* away win (i < j), home_win, draw and away_win are the sums over these
\* classes, so that they add up to the sum of the matrix; over_25 is the sum
\* over i + j > 2 and over_25 + under_25 is exactly 1.
C16_MatrixPartition ==
    poisson.pc = "done" =>
        LET out == poisson.output
            g == Grid(out.score_matrix.max_goals)
            total == CellSum(out.score_matrix, g)
            classes == Classes(out.score_matrix.max_goals)
        IN  /\ total <= Unit
            /\ total > Unit - Cardinality(g)
            /\ \A c \in g : Cardinality({n \in 1 .. 3 : c \in classes[n]}) = 1
            /\ out.home_win = CellSum(out.score_matrix, classes[1])
            /\ out.draw = CellSum(out.score_matrix, classes[2])
            /\ out.away_win = CellSum(out.score_matrix, classes[3])
            /\ out.home_win + out.draw + out.away_win = total
            /\ out.over_25 = CellSum(out.score_matrix, {c \in g : c[1] + c[2] > 2})
            /\ out.over_25 + out.under_25 = Unit

\* The model returned for unequal expected goals, with all three results
\* and the goals over 2.5 given a probability.
C16_Witness ==
    /\ poisson.pc = "done"
    /\ poisson.lambda_home > poisson.lambda_away
    /\ poisson.output.home_win > poisson.output.away_win
    /\ poisson.output.away_win > 0
    /\ poisson.output.draw > 0
    /\ poisson.output.over_25 > 0

\* C17: the model output carries btts_yes and btts_no, and _simulate reads
\* both for every match that passes the min_matches gate and completes the
\* replay normally: no replay ends in an AttributeError.
C17_BttsRead == simulation.status # "AttributeError"

(***************************************************************************)
(* Claims about the expected goals and the Dixon-Coles correction          *)
(***************************************************************************)
\* C18: every expected-goals pair handed to the scoreline model has both
\* values in [0.2, 5.0]; here for the pairs _fallback_model and
\* _model_from_odds hand to run_bivariate_poisson, for every odds mapping.
C18_LambdaRange ==
    market_model.pc \in {"model", "done"} =>
        /\ poisson.lambda_home >= LAMBDA_MIN
        /\ poisson.lambda_home <= LAMBDA_MAX
        /\ poisson.lambda_away >= LAMBDA_MIN
        /\ poisson.lambda_away <= LAMBDA_MAX

\* C19: with rho = -0.05 and expected goals in [0.2, 5.0], the factor tau is
\* at least 0 in every cell, and every corrected cell of run_dixon_coles is
\* at least 0 before the normalization.
C19_TauNonNegative ==
    dixon_coles.pc \in {"summary", "done"} =>
        /\ dixon_coles.args.rho = 0 - 50
        /\ dixon_coles.lambda_home >= 200 /\ dixon_coles.lambda_home <= 5000
        /\ dixon_coles.lambda_away >= 200 /\ dixon_coles.lambda_away <= 5000
        /\ \A c \in Grid(dixon_coles.args.max_goals) :
               /\ _tau(c[1], c[2], dixon_coles.lambda_home,
                       dixon_coles.lambda_away, dixon_coles.args.rho) >= 0
               /\ dixon_coles.cells[c] >= 0

\* The matrix of run_dixon_coles for expected goals of 5.0 and 5.0, where the
\* factor of the 1-0 cell is smallest, 0.75, and that of the 0-0 cell is 2.25.
C19_Witness ==
    /\ dixon_coles.pc \in {"summary", "done"}
    /\ dixon_coles.lambda_home = LAMBDA_MAX
    /\ dixon_coles.lambda_away = LAMBDA_MAX
    /\ _tau(1, 0, LAMBDA_MAX, LAMBDA_MAX, DEFAULT_RHO) = 750
    /\ _tau(0, 0, LAMBDA_MAX, LAMBDA_MAX, DEFAULT_RHO) = 2250
    /\ dixon_coles.cells[<<1, 0>>] > 0

(***************************************************************************)
(* Claims about the train / test split of run_backtest                     *)
(***************************************************************************)
\* The configured seasons that are training seasons, and test seasons.
ConfiguredSeasons(config, group) ==
    LET InGroup(season) == InSeq(season, group)
    IN  SelectSeq(config.seasons, InGroup)

\* The matches of a list whose season is one of seasons.
SeasonMatches(matches, seasons) ==
    LET OfSeason(match) == InSeq(_season_start(match.date), seasons)
    IN  SelectSeq(matches, OfSeason)

\* run_backtest has split backtest.matches.
SplitDone == backtest.pc # "load" /\ backtest.matches # <<>>

\* The split is the one by season.
SeasonSplit ==
    /\ backtest.train_matches
         = SeasonMatches(backtest.matches,
                         ConfiguredSeasons(sim_config, TRAIN_SEASONS))
    /\ backtest.test_matches
         = SeasonMatches(backtest.matches,
                         ConfiguredSeasons(sim_config, TEST_SEASONS))

\* The split is the first 70% of the list against the rest.
ChronologicalSplit ==
    /\ backtest.train_matches
         = SubSeq(backtest.matches, 1, (Len(backtest.matches) * 7) \div 10)
    /\ backtest.test_matches
         = SubSeq(backtest.matches, (Len(backtest.matches) * 7) \div 10 + 1,
                  Len(backtest.matches))

\* No match is in both splits, and no train match is dated after a test
\* match.
SplitsApart ==
    /\ Range(backtest.train_matches) \cap Range(backtest.test_matches) = {}
    /\ \A train \in Range(backtest.train_matches) :
           \A test \in Range(backtest.test_matches) : train.date <= test.date

\* C20 as stated: the split is by season when the configured seasons hold a
\* training season and a test season, and 70/30 in list order otherwise; in
\* both cases the splits are apart.
C20_SplitBySeasons ==
    SplitDone =>
        /\ IF /\ ConfiguredSeasons(sim_config, TRAIN_SEASONS) # <<>>
              /\ ConfiguredSeasons(sim_config, TEST_SEASONS) # <<>>
           THEN SeasonSplit
           ELSE ChronologicalSplit
        /\ SplitsApart

\* C20: the split is by season (train = the matches of the configured
\* training seasons, test = the matches of the configured test season)
\* when the list holds a match of each group, and otherwise the first 70% of
\* the date-sorted list against the remaining 30%; in both cases no match is
\* in both splits and no train match is dated after a test match.
C20_SplitByMatches ==
    SplitDone =>
        /\ IF /\ SeasonMatches(backtest.matches,
                               ConfiguredSeasons(sim_config, TRAIN_SEASONS)) # <<>>
              /\ SeasonMatches(backtest.matches,
                               ConfiguredSeasons(sim_config, TEST_SEASONS)) # <<>>
           THEN SeasonSplit
           ELSE ChronologicalSplit
        /\ SplitsApart

\* The configured seasons hold both groups, the three matches loaded are all
\* of training seasons, and the split is two matches against the last one.
C20_Witness ==
    /\ SplitDone
    /\ ConfiguredSeasons(sim_config, TRAIN_SEASONS) # <<>>
    /\ ConfiguredSeasons(sim_config, TEST_SEASONS) # <<>>
    /\ Len(backtest.matches) = 3
    /\ SeasonMatches(backtest.matches, TEST_SEASONS) = <<>>
    /\ Len(backtest.train_matches) = 2
    /\ Len(backtest.test_matches) = 1
    /\ ~SeasonSplit

(***************************************************************************)
(* Claims about _equity_curve                                              *)
(***************************************************************************)
\* The stake _equity_curve computes for the bet its loop is about to take.
NextStake ==
    Stake(equity_curve.bets[equity_curve.next], equity_curve.acc.bankroll,
          equity_curve.config, equity_curve.strategy)

BetTaken == equity_curve.pc = "loop" /\ equity_curve'.pc = "loop"

\* What one pass of the loop may do to the locals, and what the return
\* reports of them.
SkipOrCount ==
    /\ BetTaken /\ NextStake <= 0 => equity_curve'.acc = equity_curve.acc
    /\ BetTaken /\ NextStake > 0 =>
           /\ Len(equity_curve'.acc.equity) = Len(equity_curve.acc.equity) + 1
           /\ Len(equity_curve'.acc.returns) = Len(equity_curve.acc.returns) + 1
           /\ equity_curve'.acc.total_staked =
                  equity_curve.acc.total_staked + NextStake
    /\ equity_curve'.pc = "loop" =>
           Len(equity_curve'.acc.returns) = Len(equity_curve'.acc.equity) - 1
    /\ equity_curve'.pc = "returned" =>
           /\ equity_curve'.metrics.bets = Len(equity_curve.acc.returns)
           /\ Len(equity_curve'.equity) - 1 = Len(equity_curve.acc.returns)

\* C21: a bet whose stake is not positive changes none of the locals of
\* _equity_curve (staked, profit, wins, returns, curve, bankroll), a bet with
\* a positive stake adds one return and one curve point, and so the 'bets'
\* metric and the length of the curve minus one are both the number of bets
\* with a positive stake.
C21_SkippedBet == [][SkipOrCount]_vars

\* A call that skipped one bet and took another has returned.
C21_Witness ==
    /\ equity_curve.pc = "returned"
    /\ Len(equity_curve.bets) = 2
    /\ equity_curve.metrics.bets = 1

\* The bankroll values of the curve a call has returned, the highest of the
\* first i of them, and the fall of the i-th below it as a share of it.
CurveValue(i) == equity_curve.equity[i].value

RunningPeak(i) ==
    CHOOSE peak \in {CurveValue(j) : j \in 1 .. i} :
        \A j \in 1 .. i : CurveValue(j) <= peak

Drawdown(i) == Div(RunningPeak(i) - CurveValue(i), RunningPeak(i))

NeverFalls ==
    \A i, j \in 1 .. Len(equity_curve.equity) :
        i < j => CurveValue(i) <= CurveValue(j)

\* C26: max_drawdown is the largest fall of the curve below its running
\* peak, as a share of that peak (here in tenths of a percent): it is 0 when
\* the bankroll never falls below an earlier value, and lies between 0 and
\* 100 percent.
C26_MaxDrawdown ==
    equity_curve.pc = "returned" =>
        /\ \A i \in 1 .. Len(equity_curve.equity) :
               equity_curve.metrics.max_drawdown >= Drawdown(i)
        /\ \E i \in 1 .. Len(equity_curve.equity) :
               equity_curve.metrics.max_drawdown = Drawdown(i)
        /\ NeverFalls => equity_curve.metrics.max_drawdown = 0
        /\ equity_curve.metrics.max_drawdown \in 0 .. Unit

\* A curve that rose above the starting bankroll and then fell has been
\* measured.
C26_Witness ==
    /\ equity_curve.pc = "returned"
    /\ Len(equity_curve.equity) = 3
    /\ CurveValue(2) > CurveValue(1)
    /\ CurveValue(3) < CurveValue(2)
    /\ equity_curve.metrics.max_drawdown > 0

\* C29: with a positive starting bankroll and flat_stake_pct and kelly_cap
\* both in [0, 1), the bankroll is positive after every bet, under each of
\* the three strategies.
C29_BankrollPositive ==
    /\ equity_curve.pc \in {"loop", "returned"}
    /\ equity_curve.config.bankroll > 0
    /\ equity_curve.config.flat_stake_pct \in 0 .. Unit - 1
    /\ equity_curve.config.kelly_cap \in 0 .. Unit - 1
    => /\ equity_curve.acc.bankroll > 0
       /\ \A i \in 1 .. Len(equity_curve.acc.equity) :
              equity_curve.acc.equity[i].value > 0

\* Three bets, each staked with 99% of the bankroll, have all been lost.
C29_Witness ==
    /\ equity_curve.pc = "returned"
    /\ equity_curve.strategy = "flat"
    /\ equity_curve.config.flat_stake_pct = 990
    /\ equity_curve.metrics.bets = 3
    /\ equity_curve.acc.wins = 0

(***************************************************************************)
(* Claims about the trackers                                               *)
(***************************************************************************)
\* The points the tracked team took from the match of an update call.
PointsOf(call) ==
    LET own == IF call.is_home THEN call.home_goals ELSE call.away_goals
        other == IF call.is_home THEN call.away_goals ELSE call.home_goals
    IN  IF own > other THEN 3 ELSE IF own = other THEN 1 ELSE 0

\* The points of the last count matches of the tracked team, latest first.
LatestPoints(count) ==
    [i \in 1 .. count |-> PointsOf(team_tracker.calls[team_tracker.done - i + 1])]

\* C24: recent_points holds the points (3, 1 or 0) of the latest min(5, n)
\* matches of the team, latest first, and never more than five entries;
\* form() returns their sum over three times their number, a value in
\* [0, 1], and 0.5 when the team has no match yet.
C24_RecentPoints ==
    "t" \in DOMAIN team_tracker =>
        LET recent == team_tracker.t.recent_points
            count == Min(5, team_tracker.done)
        IN  /\ Len(recent) <= 5
            /\ recent = LatestPoints(count)
            /\ \A i \in 1 .. Len(recent) : recent[i] \in {0, 1, 3}
            /\ team_tracker.form # <<>> =>
                   /\ team_tracker.form[1] \in 0 .. Unit
                   /\ team_tracker.form[1] =
                          IF team_tracker.done = 0
                          THEN Unit \div 2
                          ELSE Div(SumSeq(LatestPoints(count)), 3 * count)

\* The form of a team with six matches, of which the oldest has left the
\* window, has been read.
C24_Witness ==
    /\ "t" \in DOMAIN team_tracker
    /\ team_tracker.done = 6
    /\ PointsOf(team_tracker.calls[1]) = 3
    /\ team_tracker.t.recent_points = <<0, 1, 3, 0, 1>>
    /\ team_tracker.form = <<(5 * Unit) \div 15>>

\* The sum of one field over the trackers of a dict.
RECURSIVE TotalOver(_, _, _)
TotalOver(trackers, keys, field) ==
    IF keys = {}
    THEN 0
    ELSE LET key == CHOOSE k \in keys : TRUE
         IN  trackers[key][field] + TotalOver(trackers, keys \ {key}, field)

TeamTotal(field) ==
    TotalOver(simulation.teams, DOMAIN simulation.teams, field)

LeagueTotal(field) ==
    TotalOver(simulation.league_tracker, DOMAIN simulation.league_tracker, field)

\* C28: once the loop of _simulate has taken m matches, the league trackers
\* count m matches in all, and so do the teams' home_matches and the teams'
\* away_matches; the home goals of the league trackers are the teams'
\* home_for and the teams' away_against, the away goals the teams' away_for
\* and the teams' home_against.
C28_TrackerTotals ==
    LET m == simulation.next - 1
    IN  /\ LeagueTotal("matches") = m
        /\ TeamTotal("home_matches") = m
        /\ TeamTotal("away_matches") = m
        /\ LeagueTotal("home_goals") = TeamTotal("home_for")
        /\ LeagueTotal("home_goals") = TeamTotal("away_against")
        /\ LeagueTotal("away_goals") = TeamTotal("away_for")
        /\ LeagueTotal("away_goals") = TeamTotal("home_against")

\* Three matches with goals on both sides have been taken.
C28_Witness ==
    /\ simulation.next = 4
    /\ LeagueTotal("home_goals") > 0
    /\ LeagueTotal("away_goals") > 0
    /\ TeamTotal("home_matches") = 3

(***************************************************************************)
(* Claims about the markets of _simulate                                   *)
(***************************************************************************)
\* The match the loop of _simulate is about to take.
NextMatch == sim_matches[simulation.next]

Configured(market) == market \in Range(sim_config.markets)

AllOddsPresent(match, market) ==
    IF market = "h2h"
    THEN match.odds_h # 0 /\ match.odds_d # 0 /\ match.odds_a # 0
    ELSE IF market = "totals"
    THEN match.odds_over25 # 0 /\ match.odds_under25 # 0
    ELSE match.odds_btts_yes # 0 /\ match.odds_btts_no # 0

\* The other markets of the match without odds.
OnlyMarket(match, market) ==
    Unpriced(match,
             {"odds_h", "odds_d", "odds_a", "odds_over25", "odds_under25",
              "odds_btts_yes", "odds_btts_no"}
               \ (IF market = "h2h" THEN {"odds_h", "odds_d", "odds_a"}
                  ELSE IF market = "totals" THEN {"odds_over25", "odds_under25"}
                  ELSE {"odds_btts_yes", "odds_btts_no"}))

\* C25: under any model probabilities the bet-recording code of _simulate
\* gives a match predictions (one per outcome) and possibly bets for a
\* market exactly when the market is in config.markets and every odds value
\* of the market is present; what it gives for a market is the same when the
\* odds of the other markets are missing; and no bet, in a replay or from
\* that code, is of a market that is not in config.markets.
C25_MarketGating ==
    /\ \A bet \in Range(simulation.bets) : Configured(bet.market)
    /\ simulation.status = "running" /\ simulation.next <= Len(sim_matches) =>
         \A model_probs \in BlockProbs, market \in Range(MarketOrder) :
             LET outcomes == _match_outcomes(NextMatch)
                 bets == MarketBets(NextMatch, sim_config, market, 1,
                                    model_probs, outcomes)
                 predictions == MarketPredictions(NextMatch, sim_config, market,
                                                  1, model_probs, outcomes)
                 active == Configured(market) /\ AllOddsPresent(NextMatch, market)
             IN  /\ ~active => bets = <<>> /\ predictions = <<>>
                 /\ active => Len(predictions) = Len(MarketKeys(market))
                 /\ bets = MarketBets(OnlyMarket(NextMatch, market), sim_config,
                                      market, 1, model_probs, outcomes)
                 /\ \A bet \in Range(BlockBets(NextMatch, sim_config, model_probs)) :
                        /\ Configured(bet.market)
                        /\ AllOddsPresent(NextMatch, bet.market)

\* After a first match, a match without the odds of under 2.5 is next under
\* a config with h2h and totals: it gets an h2h bet and no totals bet.
C25_Witness ==
    /\ simulation.status = "running" /\ simulation.next = 2
    /\ simulation.next <= Len(sim_matches)
    /\ Configured("h2h") /\ Configured("totals")
    /\ NextMatch.odds_under25 = 0 /\ NextMatch.odds_over25 # 0
    /\ \E model_probs \in BlockProbs :
           LET bets == BlockBets(NextMatch, sim_config, model_probs)
           IN  /\ \E bet \in Range(bets) : bet.market = "h2h"
               /\ \A bet \in Range(bets) : bet.market # "totals"

\* C27: the split of the report summary describes the split applied: the
\* train metrics are of matches of summary.split.train_seasons and the test
\* metrics of matches of summary.split.test_seasons, so that a report made
\* from the 70/30 split does not name seasons its matches are not of.
C27_SplitDescribed ==
    backtest.result.kind = "report" =>
        LET split == backtest.result.report.summary.split
        IN  /\ \A match \in Range(backtest.train_matches) :
                   InSeq(_season_start(match.date), split.train_seasons)
            /\ \A match \in Range(backtest.test_matches) :
                   InSeq(_season_start(match.date), split.test_seasons)

(***************************************************************************)
(* Claims about the trials of the grid search                              *)
(***************************************************************************)
\* What a _simulate call of its own, from empty trackers, makes of the
\* first n training matches under the trial_base of pass c.
FreshReplay(c, n) ==
    _simulate(SubSeq(backtest.train_matches, 1, n), TrialBase(sim_config, c))

SameLocals(a, b) ==
    /\ a.teams = b.teams
    /\ a.league_tracker = b.league_tracker
    /\ a.bets = b.bets
    /\ a.predictions = b.predictions

\* C22: the _simulate call of a grid pass works on trackers of its own: at
\* every match its locals are those of a replay that starts from empty
\* trackers, whatever passes ran before it; the list of training matches
\* and the config of run_backtest are as they were when the grid search
\* began; and the bets counted for the pass are those of such a replay.
C22_IndependentTrials ==
    /\ backtest.pc \in {"grid", "trial", "report"} =>
           /\ backtest.train_matches = Split(sim_matches, sim_config).train_matches
           /\ backtest.matches = sim_matches
    /\ backtest.pc = "trial" /\ simulation.status = "running" =>
           SameLocals(simulation, FreshReplay(backtest.c, simulation.next - 1))
    /\ backtest.pc \in {"grid", "report"} /\ backtest.c > 0 =>
           /\ SameLocals(simulation,
                         FreshReplay(backtest.c - 1, Len(backtest.train_matches)))
           /\ \A e \in 1 .. Len(grid_edge) :
                  backtest.trials[3 * (backtest.c - 1) + e].bets
                    = Cardinality({i \in 1 .. Len(simulation.bets) :
                                      simulation.bets[i].edge > grid_edge[e]})

\* The second pass of the grid has replayed a match that the first pass
\* replayed too.
C22_Witness ==
    /\ backtest.pc = "trial"
    /\ backtest.c = 1
    /\ simulation.next = 2
    /\ simulation.status = "running"
    /\ simulation.teams # <<>>

(***************************************************************************)
(* Claims about generate_signals                                           *)
(***************************************************************************)
\* Ratings exist for both teams of a match.
Rated(match) ==
    /\ normalize_team_name(match.home_team, DOMAIN scheduler.team_stats)
         \in DOMAIN scheduler.team_stats
    /\ normalize_team_name(match.away_team, DOMAIN scheduler.team_stats)
         \in DOMAIN scheduler.team_stats

\* C23: no call of generate_signals ends on an exception of a model, and
\* every match with h2h odds that a call has passed has a model output: of
\* the Dixon-Coles model when both teams are rated, of the fallback model
\* otherwise.
C23_ModelOutput ==
    \A job \in Jobs :
        LET this == scheduler.jobs[job]
            priced == {i \in 1 .. this.next - 1 : scheduler.matches[i].odds # <<>>}
        IN  /\ this.last \in {"", "returned"}
            /\ {this.models[i].match_id : i \in 1 .. Len(this.models)}
                 = {scheduler.matches[i].id : i \in priced}
            /\ \A i \in 1 .. Len(this.models) :
                   this.models[i].model =
                       IF Rated(scheduler.matches[this.models[i].match_id])
                       THEN "run_dixon_coles"
                       ELSE "_fallback_model"

\* C30: when no call of generate_signals is running, the signals table
\* holds at most one Signal per match and outcome, and its Signals are all
\* of one run.
C30_LatestRunOnly ==
    (\A job \in Jobs : scheduler.jobs[job].pc = "idle") =>
        \A s1, s2 \in scheduler.signals :
            /\ s1.created_at = s2.created_at
            /\ s1.match_id = s2.match_id /\ s1.outcome = s2.outcome => s1 = s2

====
